---- MODULE Spec2Model ----
(***************************************************************************)
(* A model of the Vim-to-host regular expression compiler: the VimRegExp   *)
(* constructor and parseVimPattern (regexp.ts), with the host RegExp       *)
(* constructor it hands its result to.                                     *)
(*                                                                         *)
(* A pattern is a sequence of one-character strings.  Each item of the     *)
(* output buffer resPattern is the pushed string cut into host lexemes (a  *)
(* sequence of strings: "(?=", ")", "*", a whole character class, ...);    *)
(* the emitted source is the concatenation of all lexemes.  Buffer and     *)
(* input indices are 0-based as in the source; At(s, i) reads s[i].        *)
(***************************************************************************)
EXTENDS Integers, Sequences, FiniteSets, TLC

VARIABLES
  source,    \* the Vim pattern handed to the constructor (at pc = "template":
             \* the template literal a pattern template is called with)
  options,   \* the options the caller handed to the constructor
  pc,        \* "new" | "parse" | "done" | "error" | "call" | "template"
  ps,        \* the locals of parseVimPattern
  err,       \* the error thrown by the constructor, NoError if none
  regex,     \* the host RegExp built by super(source, flags), NoRegex if none
  atoms,     \* history: one record per loop iteration of parseVimPattern
  heap,      \* the option objects the program allocated, by address 1..Len(heap)
  held,      \* the addresses of the objects of the heap the caller has a reference to
  vimOptions \* the address of the object a pattern template closes over, Undefined if none

vars == <<source, options, pc, ps, err, regex, atoms, heap, held, vimOptions>>

-----------------------------------------------------------------------------
(* Bounds of the model.                                                    *)

MaxTokens == 3

MaxFlags == 2

-----------------------------------------------------------------------------
(* Values.                                                                 *)

Undefined == -1

BS == "\\"

VERY_MAGIC == 1

MAGIC == 2

NOMAGIC == 3

VERY_NOMAGIC == 4

At(s, i) == IF i >= 0 /\ i < Len(s) THEN s[i + 1] ELSE "undefined"

Last(s) == IF Len(s) > 0 THEN s[Len(s)] ELSE "undefined"

Min(a, b) == IF a < b THEN a ELSE b

\* s.slice(from, to), for 0 <= from
Slice(s, from, to) == SubSeq(s, from + 1, Min(to, Len(s)))

RECURSIVE Join(_)
Join(s) == IF s = <<>> THEN "" ELSE Head(s) \o Join(Tail(s))

RECURSIVE Flatten(_)
Flatten(ss) == IF ss = <<>> THEN <<>> ELSE Head(ss) \o Flatten(Tail(ss))

Includes(s, c) == \E i \in 1..Len(s) : s[i] = c

Digits == {"0", "1", "2", "3", "4", "5", "6", "7", "8", "9"}

UpperCase == {"A", "B", "C", "D", "E", "F", "G", "H", "I", "J", "K", "L", "M", "N", "O", "P", "Q", "R", "S", "T", "U", "V", "W", "X", "Y", "Z"}

LineTerminators == {"\n", "\r"}

NoError == [kind |-> "none", message |-> "", source |-> <<>>, token |-> <<>>, index |-> Undefined, cause |-> "none"]

NoRegex == [source |-> <<>>, flags |-> <<>>]

\* errors.ts: the three error classes.  `token` is the text the message ends
\* with (the atom, the unsupported syntax, the option-string block).
VimRegExpSyntaxError(message, src, token, index) == [kind |-> "VimRegExpSyntaxError", message |-> message, source |-> src, token |-> token, index |-> index, cause |-> "none"]

UnsupportedSyntaxError(token, src, index) == [kind |-> "UnsupportedSyntaxError", message |-> "Unsupported syntax", source |-> src, token |-> token, index |-> index, cause |-> "none"]

CharClassSyntaxError(message, src, token, index) == [kind |-> "CharClassSyntaxError", message |-> message, source |-> src, token |-> token, index |-> index, cause |-> "none"]

-----------------------------------------------------------------------------
(* The locals of parseVimPattern and the helpers that close over them.     *)

InitialLocals(src, opts, icase) ==
  [ index |-> 0, atomIndex |-> 0,
    magic |-> IF opts.magic THEN MAGIC ELSE NOMAGIC,
    ignorecase |-> icase,
    resPattern |-> <<>>,
    groupIndices |-> <<>>,
    lastGroupIndex |-> Undefined,
    concatIndices |-> <<0>>,
    maybeIndex |-> Undefined ]

\* The outcome of one loop iteration: the locals, what was thrown, and
\* whether the token was taken as a metacharacter or as a literal.
Ok(s, role) == [s |-> s, thrown |-> NoError, role |-> role]

Throw(s, e) == [s |-> s, thrown |-> e, role |-> "meta"]

\* push(item) for an item of several host lexemes
pushItem(s, lexemes) == [s EXCEPT !.resPattern = Append(@, lexemes)]

push(s, item) == pushItem(s, <<item>>)

\* resPattern.at(-1), the empty item if there is none
LastItem(s) == IF s.resPattern = <<>> THEN <<>> ELSE s.resPattern[Len(s.resPattern)]

getAtom(src, s) == Slice(src, s.atomIndex, s.index)

hasAtom(s) == Last(s.concatIndices) < Len(s.resPattern)

NothingToRepeat(src, s) == VimRegExpSyntaxError("Nothing to repeat", src, getAtom(src, s), s.atomIndex)

InvalidKeyword(src, s) == VimRegExpSyntaxError("Invalid keyword", src, getAtom(src, s), s.atomIndex)

correctToLiteral(s) ==
  [s EXCEPT !.resPattern = IF s.maybeIndex # Undefined /\ s.maybeIndex < Len(s.resPattern) - 1
                           THEN [@ EXCEPT ![s.maybeIndex + 1] = <<"\\$">>]
                           ELSE @,
            !.maybeIndex = Undefined]

\* splice(at, 0, item): insert item so that it gets buffer index `at`.
InsertAt(buf, at, item) == Slice(buf, 0, at) \o <<item>> \o Slice(buf, at, Len(buf))

RECURSIVE SkipDigits(_, _)
SkipDigits(src, i) == IF At(src, i) \in Digits THEN SkipDigits(src, i + 1) ELSE i

DigitValue(c) == CHOOSE n \in 0..9 : ToString(n) = c

RECURSIVE parseInt(_)
parseInt(ds) == IF ds = <<>> THEN 0 ELSE 10 * parseInt(SubSeq(ds, 1, Len(ds) - 1)) + DigitValue(ds[Len(ds)])

-----------------------------------------------------------------------------
(* Quantifiers: the switch on quantifier[0].  `s.index` is already past    *)
(* the backslash (if any) and the quantifier character.                    *)

QuantifierChars == {"*", "+", "=", "?", "{", "@"}

\* backslash ? magic >= MAGIC : magic <= VERY_MAGIC
EscapedAtMagic(s, backslash) == IF backslash THEN s.magic >= MAGIC ELSE s.magic <= VERY_MAGIC

\* backslash ? magic >= NOMAGIC : magic <= MAGIC
BareAtMagic(s, backslash) == IF backslash THEN s.magic >= NOMAGIC ELSE s.magic <= MAGIC

\* backslash ? magic >= VERY_NOMAGIC : magic <= NOMAGIC
BareAtNomagic(s, backslash) == IF backslash THEN s.magic >= VERY_NOMAGIC ELSE s.magic <= NOMAGIC

QuantStar(src, s, backslash) ==
  IF (IF backslash THEN s.magic >= NOMAGIC ELSE s.magic <= MAGIC /\ hasAtom(s))
  THEN Ok(push(s, "*"), "meta")
  ELSE Ok(push(s, "\\*"), "literal")

QuantSimple(src, s, backslash, meta, literal) ==
  IF EscapedAtMagic(s, backslash)
  THEN IF ~hasAtom(s) THEN Throw(s, NothingToRepeat(src, s))
       ELSE Ok(push(s, meta), "meta")
  ELSE Ok(push(s, literal), "literal")

\* /^(?<ng>-)?(?<min>[0-9]+)?(?<comma>,)?(?<max>[0-9]+)?}/ at position i
MatchBrace(src, i) ==
  LET ng == At(src, i) = "-"
      i1 == IF ng THEN i + 1 ELSE i
      i2 == SkipDigits(src, i1)
      comma == At(src, i2) = ","
      i3 == IF comma THEN i2 + 1 ELSE i2
      i4 == SkipDigits(src, i3)
  IN  [ matched |-> At(src, i4) = "}", ng |-> ng, min |-> Slice(src, i1, i2),
        comma |-> comma, max |-> Slice(src, i3, i4), end |-> i4 + 1 ]

\* A bounded quantifier that keeps the first bound as written.
BraceTokenUnclamped(p) ==
  LET lazy == IF p.ng THEN <<"?">> ELSE <<>>
  IN  IF p.min = <<>> /\ p.max = <<>> THEN <<"*">> \o lazy
      ELSE IF p.min # <<>> /\ p.max # <<>> THEN <<"{", Join(p.min), ",", Join(p.max), "}">> \o lazy
      ELSE IF p.comma
      THEN <<"{", (IF p.min # <<>> THEN Join(p.min) ELSE "0"), ",", Join(p.max), "}">> \o lazy
      ELSE <<"{", Join(p.min), "}">>

BraceToken(p) ==
  LET lazy == IF p.ng THEN <<"?">> ELSE <<>>
  IN  IF p.min = <<>> /\ p.max = <<>> THEN <<"*">> \o lazy
      ELSE IF p.min # <<>> /\ p.max # <<>>
      THEN <<"{", ToString(Min(parseInt(p.min), parseInt(p.max))), ",", Join(p.max), "}">> \o lazy
      ELSE IF p.comma
      THEN <<"{", (IF p.min # <<>> THEN Join(p.min) ELSE "0"), ",", Join(p.max), "}">> \o lazy
      ELSE <<"{", Join(p.min), "}">>

QuantBrace(src, s, backslash) ==
  IF EscapedAtMagic(s, backslash)
  THEN IF ~hasAtom(s) THEN Throw(s, NothingToRepeat(src, s))
       ELSE LET p == MatchBrace(src, s.index)
            IN  IF ~p.matched THEN Throw(s, InvalidKeyword(src, s))
                ELSE Ok(pushItem([s EXCEPT !.index = p.end], BraceToken(p)), "meta")
  ELSE Ok(push(s, "\\{"), "literal")

\* maybeNext(/^[0-9]+/) then ensureNext(/^<?[=!]/)
MatchLookaround(src, i) ==
  LET i1 == SkipDigits(src, i)
      lt == At(src, i1) = "<"
      i2 == IF lt THEN i1 + 1 ELSE i1
      op == At(src, i2)
  IN  [ matched |-> op \in {"=", "!"}, digitsEnd |-> i1, end |-> i2 + 1,
        p |-> (IF lt THEN "<" ELSE "") \o op ]

QuantAt(src, s, backslash) ==
  IF EscapedAtMagic(s, backslash)
  THEN IF ~hasAtom(s) THEN Throw(s, NothingToRepeat(src, s))
       ELSE IF At(src, s.index) = ">" THEN Throw(s, UnsupportedSyntaxError(<<BS, "@", ">">>, src, s.atomIndex))
       ELSE LET m == MatchLookaround(src, s.index)
                head == "(?" \o m.p
            IN  IF ~m.matched THEN Throw([s EXCEPT !.index = m.digitsEnd], InvalidKeyword(src, [s EXCEPT !.index = m.digitsEnd]))
                ELSE LET s1 == [s EXCEPT !.index = m.end]
                     IN  IF LastItem(s1) = <<")">>
                         THEN Ok([s1 EXCEPT !.resPattern = IF s1.lastGroupIndex = Undefined THEN @
                                                           ELSE [@ EXCEPT ![s1.lastGroupIndex + 1] = <<head>>]], "meta")
                         ELSE Ok(push([s1 EXCEPT !.resPattern = InsertAt(@, Len(@) - 1, <<head>>)], ")"), "meta")
  ELSE Ok(push(s, "@"), "literal")

Quantifier(src, s, backslash, q) ==
  CASE q = "*" -> QuantStar(src, s, backslash)
    [] q = "+" -> QuantSimple(src, s, backslash, "+", "\\+")
    [] q = "=" -> QuantSimple(src, s, backslash, "?", "=")
    [] q = "?" -> QuantSimple(src, s, backslash, "?", "\\?")
    [] q = "{" -> QuantBrace(src, s, backslash)
    [] q = "@" -> QuantAt(src, s, backslash)

-----------------------------------------------------------------------------
(* Character codes.                                                        *)

HexDigits == <<"0", "1", "2", "3", "4", "5", "6", "7", "8", "9", "a", "b", "c", "d", "e", "f">>

HexChars == {"0", "1", "2", "3", "4", "5", "6", "7", "8", "9", "a", "b", "c", "d", "e", "f", "A", "B", "C", "D", "E", "F"}

OctalChars == {"0", "1", "2", "3", "4", "5", "6", "7"}

\* The first code that is no code point; every larger value is capped to it,
\* as toCharCode treats them all alike (and TLC's integers are 32-bit).
CodeLimit == 1114112

HexDigitValue(c) ==
  CASE c \in Digits -> DigitValue(c)
    [] c \in {"a", "A"} -> 10
    [] c \in {"b", "B"} -> 11
    [] c \in {"c", "C"} -> 12
    [] c \in {"d", "D"} -> 13
    [] c \in {"e", "E"} -> 14
    [] c \in {"f", "F"} -> 15

RECURSIVE parseIntRadix(_, _)
parseIntRadix(ds, radix) ==
  IF ds = <<>> THEN 0
  ELSE LET hi == parseIntRadix(SubSeq(ds, 1, Len(ds) - 1), radix)
       IN  IF hi >= CodeLimit THEN CodeLimit
           ELSE Min(radix * hi + HexDigitValue(ds[Len(ds)]), CodeLimit)

RECURSIVE toHex(_)
toHex(n) == IF n < 16 THEN HexDigits[n + 1] ELSE toHex(n \div 16) \o HexDigits[(n % 16) + 1]

RECURSIVE padStart(_, _)
padStart(str, n) == IF Len(str) >= n THEN str ELSE padStart("0" \o str, n)

toCharCode(n, fallback) ==
  IF n <= 255 THEN "\\x" \o padStart(toHex(n), 2)
  ELSE IF n <= 65535 THEN "\\u" \o padStart(toHex(n), 4)
  ELSE IF n <= 1114111 THEN "\\u{" \o toHex(n) \o "}"
  ELSE fallback

\* The end of the longest run of characters of `set` from i, at most `max` long.
RECURSIVE SkipSet(_, _, _, _)
SkipSet(src, i, set, max) == IF max > 0 /\ At(src, i) \in set THEN SkipSet(src, i + 1, set, max - 1) ELSE i

\* /^(?:[0-3][0-7]{0,2}|[4-7][0-7]?)/
reOctalCharEnd(src, i) ==
  IF At(src, i) \in {"0", "1", "2", "3"} THEN SkipSet(src, i + 1, OctalChars, 2)
  ELSE IF At(src, i) \in {"4", "5", "6", "7"} THEN SkipSet(src, i + 1, OctalChars, 1)
  ELSE i

\* ensureNext(re, ([s]) => toCharCode(parseInt(s, radix), fallback)) for the
\* five numeric references; `end` is where the digits matched by re stop.
CharCodeAtom(src, s, end, radix, fallback) ==
  IF end = s.index THEN Throw(s, InvalidKeyword(src, s))
  ELSE Ok(push([s EXCEPT !.index = end], toCharCode(parseIntRadix(Slice(src, s.index, end), radix), fallback)), "meta")

-----------------------------------------------------------------------------
(* charclass.ts: option strings to host character classes.                 *)

\* The characters of codes 32..126 in order; code 96 (the grave accent) is
\* written "\\x60", a name no one-character value is equal to.
Printable == <<" ", "!", "\"", "#", "$", "%", "&", "'", "(", ")", "*", "+", ",", "-", ".", "/",
               "0", "1", "2", "3", "4", "5", "6", "7", "8", "9", ":", ";", "<", "=", ">", "?",
               "@", "A", "B", "C", "D", "E", "F", "G", "H", "I", "J", "K", "L", "M", "N", "O",
               "P", "Q", "R", "S", "T", "U", "V", "W", "X", "Y", "Z", "[", "\\", "]", "^", "_",
               "\\x60", "a", "b", "c", "d", "e", "f", "g", "h", "i", "j", "k", "l", "m", "n", "o",
               "p", "q", "r", "s", "t", "u", "v", "w", "x", "y", "z", "{", "|", "}", "~">>

charCodeAt(c) ==
  IF \E i \in 1..Len(Printable) : Printable[i] = c
  THEN 31 + (CHOOSE i \in 1..Len(Printable) : Printable[i] = c)
  ELSE CASE c = "\t" -> 9 [] c = "\n" -> 10 [] c = "\r" -> 13

DEFAULT_CHAR_PATTERNS ==
  [ isfname |-> <<"@", ",", "4", "8", "-", "5", "7", ",", "/", ",", ".", ",", "-", ",", "_", ",", "+", ",", ",", ",", "#", ",", "$", ",", "%", ",", "~", ",", "=">>,
    isident |-> <<"@", ",", "4", "8", "-", "5", "7", ",", "_", ",", "1", "9", "2", "-", "2", "5", "5">>,
    iskeyword |-> <<"@", ",", "4", "8", "-", "5", "7", ",", "_", ",", "1", "9", "2", "-", "2", "5", "5">>,
    isprint |-> <<"@", ",", "1", "6", "1", "-", "2", "5", "5">> ]

\* Forcing patterns that empty the set for isident and iskeyword
FORCE_CHAR_PATTERNS_Emptying ==
  [ isfname |-> <<"^", "1", "6", "0", "-", "2", "5", "5">>,
    isident |-> <<"^", "1", "-", "2", "5", "5">>,
    iskeyword |-> <<"^", "1", "-", "2", "5", "5">>,
    isprint |-> <<"3", "2", "-", "1", "2", "6", ",", "^", "1", "6", "0", "-", "2", "5", "5">>,
    none |-> <<>> ]

FORCE_CHAR_PATTERNS ==
  [ isfname |-> <<"^", "1", "6", "0", "-", "2", "5", "5">>,
    isident |-> <<>>,
    iskeyword |-> <<>>,
    isprint |-> <<"3", "2", "-", "1", "2", "6", ",", "^", "1", "6", "0", "-", "2", "5", "5">>,
    none |-> <<>> ]

UNICODE_CHAR_CLASSES ==
  [ isfname |-> "[\\xa0-\\u{10ffff}]",
    isident |-> "",
    iskeyword |-> "[[\\p{L}\\p{N}\\p{Emoji}]--[\\x00-\\xff]]",
    isprint |-> "[\\xa0-\\u{10ffff}]",
    none |-> "" ]

ASCII_WORD_CHARS == (65..90) \cup (97..122) \cup {181} \cup (192..214) \cup (216..246) \cup (248..255)

\* (?:, *|$) at k: where the block ends, Undefined if it does not end here.
RECURSIVE SkipSpaces(_, _)
SkipSpaces(p, k) == IF At(p, k) = " " THEN SkipSpaces(p, k + 1) ELSE k

BlockTerminator(p, k) ==
  IF At(p, k) = "," THEN SkipSpaces(p, k + 1)
  ELSE IF k = Len(p) THEN k
  ELSE Undefined

\* (?:-(?<end>\d+|[^\d]))?(?:, *|$) at j, the start group ending at j.
BlockRest(p, inverse, from, j) ==
  LET k == IF At(p, j + 1) \in Digits THEN SkipDigits(p, j + 1) ELSE j + 2
      withEnd == IF At(p, j) = "-" /\ j + 1 < Len(p) THEN BlockTerminator(p, k) ELSE Undefined
      without == BlockTerminator(p, j)
  IN  IF withEnd # Undefined
      THEN [matched |-> TRUE, inverse |-> inverse, start |-> Slice(p, from, j), hasEnd |-> TRUE, end |-> Slice(p, j + 1, k), next |-> withEnd]
      ELSE IF without # Undefined
      THEN [matched |-> TRUE, inverse |-> inverse, start |-> Slice(p, from, j), hasEnd |-> FALSE, end |-> <<>>, next |-> without]
      ELSE [matched |-> FALSE]

\* (?<start>\d+|[^\d]) at i: a start group that takes ^ as any other character
BlockStartAnyCaret(p, inverse, i) ==
  IF i >= Len(p) THEN [matched |-> FALSE]
  ELSE IF At(p, i) \in Digits THEN BlockRest(p, inverse, i, SkipDigits(p, i))
  ELSE BlockRest(p, inverse, i, i + 1)

\* (?<start>\d+|[^\d^]|(?<=\^)\^|\^$) at i, then the rest of the block.
BlockStart(p, inverse, i) ==
  IF i >= Len(p) THEN [matched |-> FALSE]
  ELSE IF At(p, i) \in Digits THEN BlockRest(p, inverse, i, SkipDigits(p, i))
  ELSE IF At(p, i) # "^" THEN BlockRest(p, inverse, i, i + 1)
  ELSE LET afterCaret == IF At(p, i - 1) = "^" THEN BlockRest(p, inverse, i, i + 1) ELSE [matched |-> FALSE]
       IN  IF afterCaret.matched THEN afterCaret
           ELSE IF i + 1 = Len(p)
           THEN [matched |-> TRUE, inverse |-> inverse, start |-> <<"^">>, hasEnd |-> FALSE, end |-> <<>>, next |-> i + 1]
           ELSE [matched |-> FALSE]

\* reBlock at pos (sticky): the first alternative with and then without the
\* inverse prefix; its (.+) alternative is `matched = FALSE`.
reBlock(p, pos) ==
  LET withInverse == IF At(p, pos) = "^" THEN BlockStart(p, TRUE, pos + 1) ELSE [matched |-> FALSE]
  IN  IF withInverse.matched THEN withInverse ELSE BlockStart(p, FALSE, pos)

BlockCode(field) == IF \A i \in 1..Len(field) : field[i] \in Digits THEN parseIntRadix(field, 10) ELSE charCodeAt(field[1])

\* (.+): where the run of characters other than line terminators ends.
RECURSIVE SkipToLineEnd(_, _)
SkipToLineEnd(p, i) == IF i < Len(p) /\ At(p, i) \notin LineTerminators THEN SkipToLineEnd(p, i + 1) ELSE i

\* The loop body with the range test left out: a block whose codes are out
\* of range is passed over.
parseBlockUnchecked(p, pos, charSet, m) ==
  LET rs == BlockCode(m.start)
      re == IF m.hasEnd THEN BlockCode(m.end) ELSE rs
  IN  IF ~m.matched
      THEN [thrown |-> CharClassSyntaxError("Invalid keyword", p, Slice(p, pos, SkipToLineEnd(p, pos)), pos),
            charSet |-> charSet, next |-> Len(p)]
      ELSE [thrown |-> NoError, next |-> m.next,
            charSet |-> IF m.inverse THEN charSet \ ((rs..re) \cap (1..255)) ELSE charSet \cup ((rs..re) \cap (1..255))]

\* The body of the loop over pattern.matchAll(reBlock) for the match m at
\* pos: the set after this block and where the next one starts, or the throw.
parseBlock(p, pos, charSet, m) ==
  LET rs == BlockCode(m.start)
      re == IF m.hasEnd THEN BlockCode(m.end) ELSE rs
  IN  IF ~m.matched
      THEN [thrown |-> IF At(p, pos) \in LineTerminators THEN NoError
                       ELSE CharClassSyntaxError("Invalid keyword", p, Slice(p, pos, SkipToLineEnd(p, pos)), pos),
            charSet |-> charSet, next |-> Len(p)]
      ELSE IF m.start = <<"@">> /\ ~m.hasEnd
      THEN [thrown |-> NoError, next |-> m.next,
            charSet |-> IF m.inverse THEN charSet \ ASCII_WORD_CHARS ELSE charSet \cup ASCII_WORD_CHARS]
      ELSE IF ~(1 <= rs /\ rs <= 255 /\ 1 <= re /\ re <= 255 /\ rs <= re)
      THEN [thrown |-> CharClassSyntaxError("Invalid code range", p, Slice(p, pos, m.next), pos), charSet |-> charSet, next |-> Len(p)]
      ELSE [thrown |-> NoError, next |-> m.next,
            charSet |-> IF m.inverse THEN charSet \ (rs..re) ELSE charSet \cup (rs..re)]

\* parse(pattern): the loop over pattern.matchAll(reBlock), from pos0 with the
\* set built so far.  (Here and below a recursive operator binds the values
\* it works on, x \in {...}, so that each is computed once.)
RECURSIVE parseBlocks(_, _, _)
parseBlocks(p, pos0, charSet0) ==
  CHOOSE r \in { IF b.thrown # NoError \/ b.next >= Len(p) THEN [thrown |-> b.thrown, charSet |-> b.charSet]
                 ELSE parseBlocks(p, b.next, b.charSet)
                 : b \in {IF pos0 >= Len(p) THEN [thrown |-> NoError, charSet |-> charSet0, next |-> Len(p)]
                          ELSE parseBlock(p, pos0, charSet0, reBlock(p, pos0))} } : TRUE

\* The run-compressed class body of the sorted codes of charSet from c on.
RECURSIVE charPattern(_, _)
charPattern(charSet0, c0) ==
  CHOOSE r \in { (
      LET end == CHOOSE e \in start..255 : (start..e) \subseteq charSet /\ (e + 1) \notin charSet
          code(n) == "\\x" \o padStart(toHex(n), 2)
      IN  IF start = Undefined THEN ""
          ELSE (IF end = start THEN code(start)
                ELSE IF end = start + 1 THEN code(start) \o code(end)
                ELSE code(start) \o "-" \o code(end)) \o charPattern(charSet, end + 1)
    ) : charSet \in {charSet0},
        start \in {IF \E x \in charSet0 : x >= c0 THEN CHOOSE x \in charSet0 : x >= c0 /\ \A y \in charSet0 : y >= c0 => x <= y
                   ELSE Undefined} } : TRUE

\* The class as it is with Unicode on, whatever the option says
CharClassOfUnicode(forced, type, unicode) ==
  IF forced.thrown # NoError THEN [thrown |-> forced.thrown, class |-> ""]
  ELSE [thrown |-> NoError, class |-> "[" \o charPattern(forced.charSet, 1) \o UNICODE_CHAR_CLASSES[type] \o "]"]

\* The class of the set `forced`, the result of both parses.
CharClassOf(forced, type, unicode) ==
  IF forced.thrown # NoError THEN [thrown |-> forced.thrown, class |-> ""]
  ELSE [thrown |-> NoError,
        class |-> "[" \o charPattern(IF unicode THEN forced.charSet ELSE forced.charSet \ (160..255), 1)
                      \o (IF unicode THEN UNICODE_CHAR_CLASSES[type] ELSE "") \o "]"]

\* The caller's entries alone, the type's forcing pattern left out
ForcedCharSetSkipped(user, type) == user

\* parse(FORCE_CHAR_PATTERNS[type]) after the caller's pattern gave `user`
ForcedCharSet(user, type) ==
  IF user.thrown # NoError THEN user ELSE parseBlocks(FORCE_CHAR_PATTERNS[type], 0, user.charSet)

\* With unicode false, the caller's entries alone: no forcing pattern, no
\* removal of 160..255, no Unicode class
patternToCharClassKeeping(pattern, type, unicode) ==
  CHOOSE r \in { IF unicode THEN CharClassOf(ForcedCharSet(user, type), type, unicode)
                 ELSE IF user.thrown # NoError THEN [thrown |-> user.thrown, class |-> ""]
                 ELSE [thrown |-> NoError, class |-> "[" \o charPattern(user.charSet, 1) \o "]"]
                 : user \in {parseBlocks(pattern, 0, {})} } : TRUE

patternToCharClass(pattern, type, unicode) ==
  CHOOSE r \in {CharClassOf(forced, type, unicode) : forced \in {ForcedCharSet(parseBlocks(pattern, 0, {}), type)}} : TRUE

getCharClass(opts, type) == patternToCharClass(opts[type], type, TRUE)

-----------------------------------------------------------------------------
(* Tables of regexp.ts.                                                    *)

ESCAPE_CHARS == [e |-> "\\x1b", t |-> "\\t", r |-> "\\r", b |-> "\\x08", n |-> "\\n"]

SINGLE_CHAR_NORMAL == 1

SINGLE_CHAR_WITH_LF == 2

SINGLE_CHAR_CLASSES ==
  [ s |-> <<"[ \\t]", "[ \\t\\n]">>,
    S |-> <<"[^ \\t\\n]", "[^ \\t]">>,
    d |-> <<"[0-9]", "[0-9\\n]">>,
    D |-> <<"[^0-9\\n]", "[^0-9]">>,
    x |-> <<"[0-9A-Fa-f]", "[0-9A-Fa-f\\n]">>,
    X |-> <<"[^0-9A-Fa-f\\n]", "[^0-9A-Fa-f]">>,
    o |-> <<"[0-7]", "[0-7\\n]">>,
    O |-> <<"[^0-7\\n]", "[^0-7]">>,
    w |-> <<"[0-9A-Za-z_]", "[0-9A-Za-z_\\n]">>,
    W |-> <<"[^0-9A-Za-z_\\n]", "[^0-9A-Za-z_]">>,
    h |-> <<"[A-Za-z_]", "[A-Za-z_\\n]">>,
    H |-> <<"[^A-Za-z_\\n]", "[^A-Za-z_]">>,
    a |-> <<"[A-Za-z]", "[A-Za-z\\n]">>,
    A |-> <<"[^A-Za-z\\n]", "[^A-Za-z]">>,
    l |-> <<"[[a-z]--[A-Z]]", "[a-z\\n]">>,
    L |-> <<"[^a-z\\n]", "[^a-z]">>,
    u |-> <<"[[A-Z]--[a-z]]", "[A-Z\\n]">>,
    U |-> <<"[^A-Z\\n]", "[^A-Z]">> ]

\* null (an option class) is the empty string here.
NAMED_CHAR_CLASSES ==
  [ alnum |-> "[0-9A-Za-z]", alpha |-> "[A-Za-z]", backspace |-> "\\x08", blank |-> "[ \\t]",
    cntrl |-> "[\\x00-\\x1f\\x7f]", digit |-> "[0-9]", escape |-> "\\x1b", fname |-> "",
    graph |-> "[!-~]", ident |-> "", keyword |-> "", lower |-> "\\p{Ll}", print |-> "",
    punct |-> "[[!-~]--[0-9A-Za-z]]", return |-> "\\r", space |-> "[\\t-\\r ]", tab |-> "\\t",
    upper |-> "\\p{Lu}", xdigit |-> "[0-9A-Fa-f]" ]

reUnicodeSetSpecialChars == {"-", "!", "#", "$", "%", "&", "(", ")", "*", "+", ",", ".", "/", ":", ";", "<", "=", ">", "?", "@", "[", "]", "^", "\\x60", "{", "|", "}", "~"}

IsChar(str, i) == i >= 0 /\ i < Len(str)

\* The dot under the u flag without s: any character but a line terminator.
IsDot(str, i) == IsChar(str, i) /\ At(str, i) \notin LineTerminators

-----------------------------------------------------------------------------
(* Collections: reCollection, reCollectionYield and parseCollection.       *)

\* reNamedCharClass at i: the end of '[:name:]', Undefined if none.
reNamedCharClassEnd(str, i) ==
  IF At(str, i) = "[" /\ At(str, i + 1) = ":"
     /\ \E j \in (i + 2)..(Len(str) - 2) : At(str, j) = ":" /\ At(str, j + 1) = "]"
                                           /\ Join(Slice(str, i + 2, j)) \in DOMAIN NAMED_CHAR_CLASSES
  THEN 2 + CHOOSE j \in (i + 2)..(Len(str) - 2) : At(str, j) = ":" /\ At(str, j + 1) = "]"
                                                  /\ Join(Slice(str, i + 2, j)) \in DOMAIN NAMED_CHAR_CLASSES
  ELSE Undefined

\* reEquivalenceClass '[=.=]' (mark "=") and reCollationElement '[.a.]' (mark ".")
reBracketElementEnd(str, i, mark) ==
  IF At(str, i) = "[" /\ At(str, i + 1) = mark /\ IsDot(str, i + 2) /\ At(str, i + 3) = mark /\ At(str, i + 4) = "]"
  THEN i + 5 ELSE Undefined

\* (?:\\.|named|equivalence|collation|[^\]])*\] from i, with the regexp
\* engine's order of attempts; the end of the match, Undefined if none.
RECURSIVE reCollectionItems(_, _)
reCollectionItems(str, i0) ==
  CHOOSE r \in { (
      LET try(j) == IF j = Undefined THEN Undefined ELSE reCollectionItems(str, j)
          escaped == try(IF At(str, i) = BS /\ IsDot(str, i + 1) THEN i + 2 ELSE Undefined)
          named == try(reNamedCharClassEnd(str, i))
          equiv == try(reBracketElementEnd(str, i, "="))
          coll == try(reBracketElementEnd(str, i, "."))
          other == try(IF IsChar(str, i) /\ At(str, i) # "]" THEN i + 1 ELSE Undefined)
      IN  IF escaped # Undefined THEN escaped
          ELSE IF named # Undefined THEN named
          ELSE IF equiv # Undefined THEN equiv
          ELSE IF coll # Undefined THEN coll
          ELSE IF other # Undefined THEN other
          ELSE IF At(str, i) = "]" THEN i + 1
          ELSE Undefined
    ) : i \in {i0} } : TRUE

\* reCollection at i (just after the '['): ^\^?\]? then the items.
reCollectionEnd(str, i) ==
  LET caret == At(str, i) = "^"
      i1 == IF caret THEN i + 1 ELSE i
      a == IF caret /\ At(str, i1) = "]" THEN reCollectionItems(str, i1 + 1) ELSE Undefined
      b == IF caret THEN reCollectionItems(str, i1) ELSE Undefined
      c == IF At(str, i) = "]" THEN reCollectionItems(str, i + 1) ELSE Undefined
      d == reCollectionItems(str, i)
  IN  IF a # Undefined THEN a ELSE IF b # Undefined THEN b ELSE IF c # Undefined THEN c ELSE d

\* reEscapedChar at i: the end of the escape, Undefined if none.
reEscapedCharEnd(str, i) ==
  IF At(str, i) # BS THEN Undefined
  ELSE LET k == At(str, i + 1)
           j == CASE k = "d" -> SkipDigits(str, i + 2)
                  [] k = "o" -> reOctalCharEnd(str, i + 2)
                  [] k = "x" -> SkipSet(str, i + 2, HexChars, 2)
                  [] k = "u" -> SkipSet(str, i + 2, HexChars, 4)
                  [] k = "U" -> SkipSet(str, i + 2, HexChars, 8)
                  [] OTHER -> i + 2
       IN  IF j > i + 2 THEN j ELSE IF IsDot(str, i + 1) THEN i + 2 ELSE Undefined

\* reCharacterRange at i: [matched, startEnd, end].
reCharacterRange(str, i) ==
  LET startEnd == IF i = 0 /\ At(str, i) \in {"-", "]"} THEN i + 1
                  ELSE IF IsChar(str, i) /\ At(str, i) \notin {"-", "]", BS} THEN i + 1
                  ELSE reEscapedCharEnd(str, i)
      e == startEnd + 1
      end == IF reEscapedCharEnd(str, e) # Undefined THEN reEscapedCharEnd(str, e)
             ELSE IF IsDot(str, e) THEN e + 1 ELSE Undefined
  IN  IF startEnd # Undefined /\ At(str, startEnd) = "-" /\ end # Undefined
      THEN [matched |-> TRUE, startEnd |-> startEnd, end |-> end]
      ELSE [matched |-> FALSE]

\* The <special> group of reCollectionYield at i: [kind, end].
YieldSpecial(str, i) ==
  LET range == reCharacterRange(str, i)
  IN  IF range.matched THEN [kind |-> "range", end |-> range.end, startEnd |-> range.startEnd]
      ELSE IF reEscapedCharEnd(str, i) # Undefined THEN [kind |-> "escaped", end |-> reEscapedCharEnd(str, i)]
      ELSE IF reNamedCharClassEnd(str, i) # Undefined THEN [kind |-> "named", end |-> reNamedCharClassEnd(str, i)]
      ELSE IF reBracketElementEnd(str, i, "=") # Undefined THEN [kind |-> "equivalence", end |-> i + 5]
      ELSE IF reBracketElementEnd(str, i, ".") # Undefined THEN [kind |-> "collation", end |-> i + 5]
      ELSE IF At(str, i) \in reUnicodeSetSpecialChars THEN [kind |-> "char", end |-> i + 1]
      ELSE IF i = Len(str) THEN [kind |-> "closed", end |-> i]
      ELSE [kind |-> "none"]

\* (?<normal>.*?): the first position from i on where <special> matches,
\* Undefined if a line terminator is in the way.
RECURSIVE YieldNormalEnd(_, _)
YieldNormalEnd(str, i) ==
  IF YieldSpecial(str, i).kind # "none" THEN i
  ELSE IF IsDot(str, i) THEN YieldNormalEnd(str, i + 1)
  ELSE Undefined

parseEscapedCharInCollection(str) ==
  IF str[1] = BS
  THEN IF Len(str) = 2 /\ str[2] \in DOMAIN ESCAPE_CHARS THEN ESCAPE_CHARS[str[2]]
       ELSE IF Len(str) = 1 THEN "\\\\"
       ELSE IF str[2] \in {"d", "o", "x", "u", "U"}
       THEN IF Len(str) = 2 THEN ""
            ELSE toCharCode(parseIntRadix(Slice(str, 2, Len(str)), IF str[2] = "d" THEN 10 ELSE IF str[2] = "o" THEN 8 ELSE 16), "")
       ELSE "\\\\" \o toCharCode(charCodeAt(str[2]), "")
  ELSE IF str[1] \in reUnicodeSetSpecialChars THEN toCharCode(charCodeAt(str[1]), "")
  ELSE str[1]

\* The callback of rest.replaceAll(reCollectionYield, ...) for the match of
\* <normal> = str[i..n) and <special> = sp: what it returns (text) or throws.
YieldMatch(str, i, n, sp, opts, src, atomIndex) ==
  LET normal == Join(Slice(str, i, n))
      name == Join(Slice(str, n + 2, sp.end - 2))
      text(special) == [thrown |-> NoError, text |-> normal \o special]
  IN  CASE sp.kind = "closed" -> text("")
        [] sp.kind = "range" ->
             text(parseEscapedCharInCollection(Slice(str, n, sp.startEnd)) \o "-"
                  \o parseEscapedCharInCollection(Slice(str, sp.startEnd + 1, sp.end)))
        [] sp.kind = "named" /\ NAMED_CHAR_CLASSES[name] # "" -> text(NAMED_CHAR_CLASSES[name])
        [] sp.kind = "named" /\ NAMED_CHAR_CLASSES[name] = "" ->
             [thrown |-> getCharClass(opts, "is" \o name).thrown, text |-> normal \o getCharClass(opts, "is" \o name).class]
        [] sp.kind = "equivalence" ->
             [thrown |-> UnsupportedSyntaxError(<<"[", "[", "=", "a", "=", "]", "]">>, src, atomIndex), text |-> ""]
        [] sp.kind = "collation" ->
             [thrown |-> UnsupportedSyntaxError(<<"[", "[", ".", "a", ".", "]", "]">>, src, atomIndex), text |-> ""]
        [] OTHER -> text(parseEscapedCharInCollection(Slice(str, n, sp.end)))

\* One match of reCollectionYield from i: [matched, thrown, text, end].
YieldOne(str, i, n, opts, src, atomIndex) ==
  IF n = Undefined THEN [matched |-> FALSE, thrown |-> NoError, text |-> Join(Slice(str, i, Len(str))), end |-> Len(str)]
  ELSE CHOOSE r \in UNION {{[matched |-> sp.kind # "closed", thrown |-> y.thrown, text |-> y.text, end |-> sp.end]
                            : y \in {YieldMatch(str, i, n, sp, opts, src, atomIndex)}}
                           : sp \in {YieldSpecial(str, n)}} : TRUE

\* rest.replaceAll(reCollectionYield, ...) from position i0: [thrown, text].
RECURSIVE YieldAll(_, _, _, _, _)
YieldAll(str, i0, opts, src, atomIndex) ==
  CHOOSE r \in { IF ~y.matched \/ y.thrown # NoError THEN [thrown |-> y.thrown, text |-> y.text]
                 ELSE [thrown |-> YieldAll(str, y.end, opts, src, atomIndex).thrown,
                       text |-> y.text \o YieldAll(str, y.end, opts, src, atomIndex).text]
                 : y \in {YieldOne(str, i0, YieldNormalEnd(str, i0), opts, src, atomIndex)} } : TRUE

parseCollection(collection, opts, src, atomIndex) ==
  CHOOSE r \in {[thrown |-> y.thrown, text |-> (IF inverse THEN "^" ELSE "") \o y.text]
                : inverse \in {collection # <<>> /\ collection[1] = "^"},
                  y \in {YieldAll(IF collection # <<>> /\ collection[1] = "^" THEN Tail(collection) ELSE collection,
                                  0, opts, src, atomIndex)}} : TRUE

\* The collection src[s.index .. end): its class between `open` and `close`.
CollectionBody(src, opts, s, open, close, end) ==
  CHOOSE r \in {IF body.thrown # NoError THEN Throw([s EXCEPT !.index = end], body.thrown)
                ELSE Ok(push([s EXCEPT !.index = end], open \o body.text \o close), "meta")
                : body \in {parseCollection(Slice(src, s.index, end - 1), opts, src, s.atomIndex)}} : TRUE

\* The '[' of a collection met at a level where it is a metacharacter;
\* `open` and `close` wrap the class body ('[' ... ']' or '[\n[' ... ']]').
CollectionTo(src, opts, s, open, close, end) ==
  IF end = Undefined THEN Ok(push(s, "\\["), "literal")
  ELSE IF end = s.index + 1 THEN Ok(push([s EXCEPT !.index = end], "\\[\\]"), "literal")
  ELSE CollectionBody(src, opts, s, open, close, end)

Collection(src, opts, s, open, close) == CollectionTo(src, opts, s, open, close, reCollectionEnd(src, s.index))

-----------------------------------------------------------------------------
(* Atoms: the switch on c.  s.index is already past the backslash (if      *)
(* any) and past c.                                                        *)

\* stringMatch ? "^" : "(?:^|(?<=\\n))"
LineStart(opts) == IF opts.stringMatch THEN <<"^">> ELSE <<"(?:", "^", "|", "(?<=", "\\n", ")", ")">>

\* stringMatch ? "$" : "(?:(?=\\n)|$)"
LineEnd(opts) == IF opts.stringMatch THEN <<"$">> ELSE <<"(?:", "(?=", "\\n", ")", "|", "$", ")">>

\* A '^' that is always the literal.
CaretLiteral(opts, s, backslash) == Ok(push(s, "\\^"), "literal")

Caret(opts, s, backslash) ==
  IF BareAtNomagic(s, backslash)
  THEN IF hasAtom(s)
       THEN IF LastItem(s) \in {<<"\n">>, <<"\\n">>, <<"\\x0a">>}
            THEN Ok(pushItem(s, IF opts.stringMatch THEN <<"^">> ELSE <<"(?:", ")">>), "meta")
            ELSE Ok(push(s, "\\^"), "literal")
       ELSE Ok(pushItem(s, LineStart(opts)), "meta")
  ELSE Ok(push(s, "\\^"), "literal")

Dollar(opts, s, backslash) ==
  IF BareAtNomagic(s, backslash)
  THEN Ok(pushItem([s EXCEPT !.maybeIndex = Len(s.resPattern)], LineEnd(opts)), "meta")
  ELSE Ok(push(s, "\\$"), "literal")

Dot(s, backslash) ==
  IF BareAtMagic(s, backslash) THEN Ok(push(s, "[^\\n]"), "meta") ELSE Ok(push(s, "\\."), "literal")

\* getCharClass(type) wrapped in pre ... post and pushed
ClassAtom(opts, s, type, pre, post) ==
  CHOOSE r \in {IF cls.thrown # NoError THEN Throw(s, cls.thrown)
                ELSE Ok(push(s, pre \o cls.class \o post), "meta")
                : cls \in {getCharClass(opts, type)}} : TRUE

\* The lookaround pair of a word boundary: behind and ahead of it
WordBoundary(opts, s, behind, ahead) ==
  CHOOSE r \in {IF word.thrown # NoError THEN Throw(s, word.thrown)
                ELSE Ok(pushItem(s, <<behind, word.class, ")", ahead, word.class, ")">>), "meta")
                : word \in {getCharClass(opts, "iskeyword")}} : TRUE

WordStart(opts, s) == WordBoundary(opts, s, "(?<!", "(?=")

WordEnd(opts, s) == WordBoundary(opts, s, "(?<=", "(?!")

\* A '~' that is always the literal.
TildeLiteral(src, s, backslash) == Ok(push(s, "~"), "literal")

Tilde(src, s, backslash) ==
  IF BareAtMagic(s, backslash) THEN Throw(s, UnsupportedSyntaxError(<<"~">>, src, s.atomIndex))
  ELSE Ok(push(s, "~"), "literal")

\* groupIndices.push(resPattern.length); push(open); concatIndices.push(resPattern.length)
OpenWith(s, open) ==
  [s EXCEPT !.groupIndices = Append(@, Len(s.resPattern)),
            !.resPattern = Append(@, <<open>>),
            !.concatIndices = Append(@, Len(s.resPattern) + 1)]

OpenGroup(s, backslash) ==
  IF EscapedAtMagic(s, backslash) THEN Ok(OpenWith(s, "("), "meta") ELSE Ok(push(s, "\\("), "literal")

CloseGroup(src, s, backslash) ==
  IF EscapedAtMagic(s, backslash)
  THEN IF s.groupIndices = <<>>
       THEN Throw([s EXCEPT !.lastGroupIndex = Undefined], VimRegExpSyntaxError("Unmatched '\\)'", src, <<>>, s.atomIndex))
       ELSE Ok(push(correctToLiteral([s EXCEPT !.lastGroupIndex = Last(s.groupIndices),
                                               !.groupIndices = SubSeq(@, 1, Len(@) - 1),
                                               !.concatIndices = SubSeq(@, 1, Len(@) - 1)]), ")"), "meta")
  ELSE Ok(push(s, "\\)"), "literal")

Bar(s, backslash) ==
  IF EscapedAtMagic(s, backslash)
  THEN LET s1 == push(correctToLiteral(s), "|")
       IN  Ok([s1 EXCEPT !.concatIndices = SubSeq(@, 1, Len(@) - 1) \o <<Len(s1.resPattern)>>], "meta")
  ELSE Ok(push(s, "\\|"), "literal")

\* Ampersand with the lookahead opened at the start of the whole buffer
\* instead of the start of the current concat segment.
AmpersandFromStart(s, backslash) ==
  IF EscapedAtMagic(s, backslash)
  THEN LET s1 == correctToLiteral(s)
           s2 == push([s1 EXCEPT !.resPattern = InsertAt(@, 0, <<"(?=">>)], ")")
       IN  Ok([s2 EXCEPT !.concatIndices = SubSeq(@, 1, Len(@) - 1) \o <<Len(s2.resPattern)>>], "meta")
  ELSE Ok(push(s, "&"), "literal")

\* concatIndices holds one entry per open group plus one, so pop()! is defined.
Ampersand(s, backslash) ==
  IF EscapedAtMagic(s, backslash)
  THEN LET s1 == correctToLiteral(s)
           s2 == push([s1 EXCEPT !.resPattern = InsertAt(@, Last(s1.concatIndices), <<"(?=">>)], ")")
       IN  Ok([s2 EXCEPT !.concatIndices = SubSeq(@, 1, Len(@) - 1) \o <<Len(s2.resPattern)>>], "meta")
  ELSE Ok(push(s, "&"), "literal")

\* /^(?:V|#=?|[<>]?(?:'.?|(?:\.|[0-9]+)?[lcv]))/ at i: the end of the match,
\* Undefined if none.
PercentKeywordEnd(src, i) ==
  LET tail(j) == IF At(src, j) = "'" THEN (IF IsDot(src, j + 1) THEN j + 2 ELSE j + 1)
                 ELSE LET k == IF At(src, j) = "." THEN j + 1 ELSE SkipDigits(src, j)
                      IN  IF At(src, k) \in {"l", "c", "v"} THEN k + 1
                          ELSE IF At(src, j) \in {"l", "c", "v"} THEN j + 1
                          ELSE Undefined
  IN  IF At(src, i) = "V" THEN i + 1
      ELSE IF At(src, i) = "#" THEN (IF At(src, i + 1) = "=" THEN i + 2 ELSE i + 1)
      ELSE IF At(src, i) \in {"<", ">"} /\ tail(i + 1) # Undefined THEN tail(i + 1)
      ELSE tail(i)

Percent(src, s, backslash) ==
  IF EscapedAtMagic(s, backslash)
  THEN LET k == At(src, s.index)
           s1 == [s EXCEPT !.index = @ + 1]
           end == PercentKeywordEnd(src, s.index)
       IN  CASE k = "(" -> Ok(OpenWith(s1, "(?:"), "meta")
             [] k = "^" -> Ok(push(s1, "^"), "meta")
             [] k = "$" -> Ok(push(s1, "$"), "meta")
             [] k = "d" -> CharCodeAtom(src, s1, SkipDigits(src, s1.index), 10, "")
             [] k = "o" -> CharCodeAtom(src, s1, reOctalCharEnd(src, s1.index), 8, "")
             [] k = "x" -> CharCodeAtom(src, s1, SkipSet(src, s1.index, HexChars, 2), 16, "")
             [] k = "u" -> CharCodeAtom(src, s1, SkipSet(src, s1.index, HexChars, 4), 16, "")
             [] k = "U" -> CharCodeAtom(src, s1, SkipSet(src, s1.index, HexChars, 8), 16, "[]")
             [] k = "[" -> Throw(s1, UnsupportedSyntaxError(<<BS, "%", "[", "]">>, src, s.atomIndex))
             [] k = "C" -> Throw(s1, UnsupportedSyntaxError(<<BS, "%", "C">>, src, s.atomIndex))
             [] OTHER -> IF end # Undefined
                         THEN Throw([s EXCEPT !.index = end], UnsupportedSyntaxError(<<BS, "%">> \o Slice(src, s.index, end), src, s.atomIndex))
                         ELSE Throw(s, InvalidKeyword(src, s))
  ELSE Ok(push(s, "%"), "literal")

OptionClassKeys == [i |-> "isident", k |-> "iskeyword", f |-> "isfname", p |-> "isprint"]

OptionClassKeysNoDigit == [I |-> "isident", K |-> "iskeyword", F |-> "isfname", P |-> "isprint"]

\* The class letter of \_x and of \x: [type, pre, post] for `key`, where
\* lf tells the \_ form (the class also matches a line break).
OptionClass(key, lf) ==
  IF key \in DOMAIN OptionClassKeys
  THEN [type |-> OptionClassKeys[key], pre |-> IF lf THEN "[\\n" ELSE "", post |-> IF lf THEN "]" ELSE ""]
  ELSE [type |-> OptionClassKeysNoDigit[key], pre |-> IF lf THEN "[[\\n" ELSE "[", post |-> "--[0-9]]"]

IsOptionClass(key) == key \in DOMAIN OptionClassKeys \/ key \in DOMAIN OptionClassKeysNoDigit

UnderscoreKey(src, opts, s, s1, key) ==
  IF key \in DOMAIN SINGLE_CHAR_CLASSES THEN Ok(push(s1, SINGLE_CHAR_CLASSES[key][SINGLE_CHAR_WITH_LF]), "meta")
  ELSE IF key = "^" THEN Ok(pushItem(s1, LineStart(opts)), "meta")
  ELSE IF key = "$" THEN Ok(pushItem(s1, LineEnd(opts)), "meta")
  ELSE IF key = "." THEN Ok(push(s1, "."), "meta")
  ELSE Throw(s1, VimRegExpSyntaxError("Invalid char class", src, getAtom(src, s1), s.atomIndex))

Underscore(src, opts, s, backslash) ==
  IF EscapedAtMagic(s, backslash)
  THEN UnderscoreKey(src, opts, s, [s EXCEPT !.index = @ + 1], At(src, s.index))
  ELSE Ok(push(s, "_"), "literal")

\* case "z": maybeNext(/^[se(1-9]/)
BackslashZ(src, s) ==
  LET op == At(src, s.index)
  IN  IF op \in {"s", "e", "("} \cup (Digits \ {"0"})
      THEN Throw([s EXCEPT !.index = @ + 1], UnsupportedSyntaxError(<<BS, "z", op>>, src, s.atomIndex))
      ELSE Throw(s, VimRegExpSyntaxError("Invalid keyword", src, <<BS, "z">> \o Slice(src, s.index, s.index + 1), s.atomIndex))

\* A switch that takes \C for \c.
CaseSwitchAlways(c) == TRUE

\* case "c": ignorecase = true; case "C": ignorecase = false
CaseSwitch(c) == c = "c"

\* A switch that always sets magic.
ModeSwitchMagic(c) == MAGIC

\* case "m" / "M" / "v" / "V": the level the switch sets
ModeSwitch(c) ==
  CASE c = "m" -> MAGIC
    [] c = "M" -> NOMAGIC
    [] c = "v" -> VERY_MAGIC
    [] c = "V" -> VERY_NOMAGIC

\* default: with a backslash
EscapedChar(src, s, c) ==
  IF c \in DOMAIN ESCAPE_CHARS THEN Ok(push(s, ESCAPE_CHARS[c]), "meta")
  ELSE IF c \in DOMAIN SINGLE_CHAR_CLASSES THEN Ok(push(s, SINGLE_CHAR_CLASSES[c][SINGLE_CHAR_NORMAL]), "meta")
  ELSE CASE c \in {"c", "C"} -> Ok([s EXCEPT !.ignorecase = CaseSwitch(c)], "switch")
         [] c = "z" -> BackslashZ(src, s)
         [] c = "Z" -> Throw(s, UnsupportedSyntaxError(<<BS, "Z">>, src, s.atomIndex))
         [] c \in {"m", "M", "v", "V"} -> Ok([s EXCEPT !.magic = ModeSwitch(c)], "switch")
         [] c \in Digits \ {"0"} -> Ok(pushItem(s, <<"(?:", "\\" \o c, ")">>), "meta")
         [] c = "undefined" -> Ok(pushItem(s, <<>>), "char")
         [] OTHER -> Ok(push(s, c), "char")

Escaped(src, s, c) == EscapedChar(src, IF c = "n" THEN correctToLiteral(s) ELSE s, c)

\* The atoms that expand one of the caller's character-class options, or a
\* collection: \i \I \k \K \f \F \p \P, their \_ forms, [...] and \_[...].
\* what |-> "none" when (c, backslash) at this level is none of them.
ClassUse(src, s, backslash, c) ==
  LET key == At(src, s.index)
  IN  IF c = "[" /\ BareAtMagic(s, backslash) THEN [what |-> "collection", s |-> s, key |-> c, lf |-> FALSE]
      ELSE IF c = "_" /\ EscapedAtMagic(s, backslash) /\ key = "["
      THEN [what |-> "collection", s |-> [s EXCEPT !.index = @ + 1], key |-> key, lf |-> TRUE]
      ELSE IF c = "_" /\ EscapedAtMagic(s, backslash) /\ IsOptionClass(key)
      THEN [what |-> "class", s |-> [s EXCEPT !.index = @ + 1], key |-> key, lf |-> TRUE]
      ELSE IF backslash /\ c \notin {BS, "^", "$", ".", "<", ">", "~", "(", ")", "|", "&", "%", "[", "]", "_"} /\ IsOptionClass(c)
      THEN [what |-> "class", s |-> s, key |-> c, lf |-> FALSE]
      ELSE [what |-> "none", s |-> s, key |-> c, lf |-> FALSE]

ClassUseAtom(src, opts, u) ==
  IF u.what = "collection"
  THEN Collection(src, opts, u.s, IF u.lf THEN "[\\n[" ELSE "[", IF u.lf THEN "]]" ELSE "]")
  ELSE ClassAtom(opts, u.s, OptionClass(u.key, u.lf).type, OptionClass(u.key, u.lf).pre, OptionClass(u.key, u.lf).post)

PlainAtom(src, opts, s, backslash, c) ==
  CASE c = BS -> Ok(push(s, "\\\\"), "literal")
    [] c = "^" -> Caret(opts, s, backslash)
    [] c = "$" -> Dollar(opts, s, backslash)
    [] c = "." -> Dot(s, backslash)
    [] c = "<" -> WordStart(opts, s)
    [] c = ">" -> WordEnd(opts, s)
    [] c = "~" -> Tilde(src, s, backslash)
    [] c = "(" -> OpenGroup(s, backslash)
    [] c = ")" -> CloseGroup(src, s, backslash)
    [] c = "|" -> Bar(s, backslash)
    [] c = "&" -> Ampersand(s, backslash)
    [] c = "%" -> Percent(src, s, backslash)
    [] c = "[" -> Ok(push(s, "\\["), "literal")
    [] c = "]" -> Ok(push(s, "\\]"), "literal")
    [] c = "_" -> Underscore(src, opts, s, backslash)
    [] OTHER -> IF backslash THEN Escaped(src, s, c) ELSE Ok(push(s, c), "char")

\* The switch on c of one iteration (after the quantifiers)
Atom(src, opts, s, backslash, c) ==
  CHOOSE r \in {IF u.what = "none" THEN PlainAtom(src, opts, s, backslash, c) ELSE ClassUseAtom(src, opts, u)
                : u \in {ClassUse(src, s, backslash, c)}} : TRUE

-----------------------------------------------------------------------------
(* The host RegExp constructor reached by super(source, flags): the flag   *)
(* check, then the syntax of the emitted lexemes under the v flag.  The    *)
(* result is the reason of the host's SyntaxError ("" if none); the host   *)
(* message is "Invalid regular expression: /.../: " followed by it.        *)
(* The inside of a character class is not examined.                        *)

HostFlagChars == <<"d", "g", "i", "m", "s", "u", "v", "y">>

\* A host that takes any flags.
HostFlagsAny(flags) == TRUE

HostFlagsValid(flags) ==
  /\ \A i \in 1..Len(flags) : Includes(HostFlagChars, flags[i])
  /\ \A i, j \in 1..Len(flags) : flags[i] = flags[j] => i = j
  /\ ~(Includes(flags, "u") /\ Includes(flags, "v"))

\* RegExp.prototype.flags
HostFlags(flags) == SelectSeq(HostFlagChars, LAMBDA c : Includes(flags, c))

HostOpens == {"(", "(?:", "(?=", "(?!", "(?<=", "(?<!"}

HostLookarounds == {"(?=", "(?!", "(?<=", "(?<!"}

HostBackRefs == {"\\" \o ToString(n) : n \in 1..9}

HostCaptures(lexemes) == Cardinality({i \in 1..Len(lexemes) : lexemes[i] = "("})

\* prev: what stands before lexeme i in its alternative: "none", "atom",
\* "assertion", "lookaround", "quantified" or "lazy".
RECURSIVE HostScan(_, _, _, _)
HostScan(lexemes, i, prev, stack) ==
  IF i > Len(lexemes) THEN (IF stack # <<>> THEN "Unterminated group" ELSE "")
  ELSE LET t == lexemes[i]
           closing == CHOOSE j \in i..Len(lexemes) : lexemes[j] = "}" /\ \A k \in i..(j - 1) : lexemes[k] # "}"
       IN  IF t \in HostOpens THEN HostScan(lexemes, i + 1, "none", Append(stack, t))
           ELSE IF t = ")"
           THEN IF stack = <<>> THEN "Unmatched ')'"
                ELSE HostScan(lexemes, i + 1, IF Last(stack) \in HostLookarounds THEN "lookaround" ELSE "atom",
                              SubSeq(stack, 1, Len(stack) - 1))
           ELSE IF t = "|" THEN HostScan(lexemes, i + 1, "none", stack)
           ELSE IF t \in {"^", "$"} THEN HostScan(lexemes, i + 1, "assertion", stack)
           ELSE IF t = "?" /\ prev = "quantified" THEN HostScan(lexemes, i + 1, "lazy", stack)
           ELSE IF t \in {"*", "+", "?", "{"}
           THEN IF prev = "lookaround" THEN "Invalid quantifier"
                ELSE IF prev # "atom" THEN "Nothing to repeat"
                ELSE HostScan(lexemes, IF t = "{" THEN closing + 1 ELSE i + 1, "quantified", stack)
           ELSE IF t = "}" THEN "Lone quantifier brackets"
           ELSE IF t \in HostBackRefs /\ HostCaptures(lexemes) < (CHOOSE n \in 1..9 : t = "\\" \o ToString(n))
           THEN "Invalid escape"
           ELSE IF t = "" THEN HostScan(lexemes, i + 1, prev, stack)
           ELSE HostScan(lexemes, i + 1, "atom", stack)

HostSyntaxError(lexemes, flags) ==
  IF ~HostFlagsValid(flags) THEN "Invalid flags supplied to RegExp constructor"
  ELSE HostScan(lexemes, 1, "none", <<>>)

-----------------------------------------------------------------------------
(* The constructor and the body of parseVimPattern.                        *)

DefaultOptions ==
  [ isfname |-> DEFAULT_CHAR_PATTERNS.isfname, isident |-> DEFAULT_CHAR_PATTERNS.isident,
    iskeyword |-> DEFAULT_CHAR_PATTERNS.iskeyword, isprint |-> DEFAULT_CHAR_PATTERNS.isprint,
    magic |-> TRUE, ignorecase |-> FALSE, smartcase |-> FALSE, stringMatch |-> FALSE, flags |-> <<>> ]

\* { ...defaults, ...(srcObj && srcObj.#options), flags: "", ...options }.
\* For a pattern that is a string `opts` is the caller's options; for a
\* pattern that is a wrapper it is [from |-> the #options of that wrapper,
\* given |-> the caller's options].
mergedOptions(opts) ==
  IF "from" \in DOMAIN opts
  THEN [k \in DOMAIN DefaultOptions |->
          IF k \in DOMAIN opts.given THEN opts.given[k]
          ELSE IF k = "flags" THEN <<>>
          ELSE opts.from[k]]
  ELSE [k \in DOMAIN DefaultOptions |-> IF k \in DOMAIN opts THEN opts[k] ELSE DefaultOptions[k]]

\* /^(?:\\.|[^\\])*?\p{Lu}/u.test(source), from position i
RECURSIVE HasUpperCase(_, _)
HasUpperCase(src, i) ==
  IF ~IsChar(src, i) THEN FALSE
  ELSE IF At(src, i) \in UpperCase THEN TRUE
  ELSE IF At(src, i) = BS THEN IsDot(src, i + 1) /\ HasUpperCase(src, i + 2)
  ELSE HasUpperCase(src, i + 1)

\* A union that forgets the internal flags.
UnionFlagsNone(flags, internal) == flags

\* internalFlags.reduce((flags, add) => flags.includes(add) ? flags : flags + add, options.flags)
RECURSIVE UnionFlags(_, _)
UnionFlags(flags, internal) ==
  IF internal = <<>> THEN flags
  ELSE UnionFlags(IF Includes(flags, Head(internal)) THEN flags ELSE Append(flags, Head(internal)), Tail(internal))

\* A catch clause that throws every error again as it is
CaughtUnchanged(cause, vimSource) == cause

\* The catch clause of the constructor: what it throws for `cause` (`wrapped`
\* is the error object that the new error has as its cause).
Caught(cause, vimSource) ==
  IF cause.kind \in {"VimRegExpSyntaxError", "UnsupportedSyntaxError"} THEN cause
  ELSE [kind |-> "VimRegExpSyntaxError", message |-> cause.message, source |-> vimSource,
        token |-> cause.token, index |-> Undefined, cause |-> cause.kind, wrapped |-> cause]

HostError(message) == [kind |-> "SyntaxError", message |-> message, source |-> <<>>, token |-> <<>>, index |-> Undefined, cause |-> "none"]

InvalidFlags(flags) == VimRegExpSyntaxError("Invalid flags supplied to VimRegExp constructor", flags, flags, Undefined)

Construct ==
  /\ pc = "new"
  /\ LET merged == mergedOptions(options)
     IN  IF Includes(merged.flags, "m") \/ Includes(merged.flags, "u")
         THEN /\ err' = Caught(InvalidFlags(merged.flags), source)
              /\ pc' = "error"
              /\ UNCHANGED ps
         ELSE /\ ps' = InitialLocals(source, merged, merged.ignorecase /\ ~(merged.smartcase /\ HasUpperCase(source, 0)))
              /\ pc' = "parse"
              /\ UNCHANGED err
  /\ UNCHANGED <<source, options, regex, atoms, heap, held, vimOptions>>

\* One iteration of the while loop ended with `result`.
Iterated(result, backslash, c) ==
  /\ ps' = result.s
  /\ IF result.thrown # NoError
     THEN /\ err' = Caught(result.thrown, source)
          /\ pc' = "error"
          /\ UNCHANGED atoms
     ELSE /\ atoms' = Append(atoms, [atomIndex |-> result.s.atomIndex, end |-> result.s.index, backslash |-> backslash,
                                     c |-> c, level |-> ps.magic, role |-> result.role, hadAtom |-> hasAtom(ps),
                                     before |-> ps.resPattern, after |-> result.s.resPattern])
          /\ UNCHANGED <<err, pc>>
  /\ UNCHANGED <<source, options, regex, heap, held, vimOptions>>

Backslash == At(source, ps.index) = BS

\* The character after the optional backslash.
NextChar == At(source, IF Backslash THEN ps.index + 1 ELSE ps.index)

\* The locals once atomIndex is saved and the backslash and c are consumed.
Consumed == [ps EXCEPT !.atomIndex = ps.index, !.index = IF Backslash THEN ps.index + 2 ELSE ps.index + 1]

ParseQuantifier ==
  /\ pc = "parse"
  /\ ps.index < Len(source)
  /\ NextChar \in QuantifierChars
  /\ Iterated(Quantifier(source, Consumed, Backslash, NextChar), Backslash, NextChar)

ParseAtom ==
  /\ pc = "parse"
  /\ ps.index < Len(source)
  /\ NextChar \notin QuantifierChars
  /\ Iterated(Atom(source, mergedOptions(options), Consumed, Backslash, NextChar), Backslash, NextChar)

Finish ==
  /\ pc = "parse"
  /\ ps.index >= Len(source)
  /\ LET s == correctToLiteral(ps)
         resSource == Flatten(s.resPattern)
         resFlags == UnionFlags(mergedOptions(options).flags, <<"s", "v">> \o (IF s.ignorecase THEN <<"i">> ELSE <<>>))
         reason == HostSyntaxError(resSource, resFlags)
     IN  /\ ps' = s
         /\ IF reason # ""
            THEN /\ err' = Caught(HostError(reason), source)
                 /\ pc' = "error"
                 /\ UNCHANGED <<regex, heap>>
            ELSE /\ heap' = Append(heap, mergedOptions(options))
                 /\ regex' = [source |-> resSource, flags |-> HostFlags(resFlags),
                              options |-> Len(heap) + 1, vimSource |-> source]
                 /\ pc' = "done"
                 /\ UNCHANGED err
  /\ UNCHANGED <<source, options, atoms, held, vimOptions>>

Next == Construct \/ ParseQuantifier \/ ParseAtom \/ Finish

\* The patterns made of at most n tokens of T.
RECURSIVE Concats(_, _)
Concats(T, n) == IF n = 0 THEN {<<>>} ELSE LET P == Concats(T, n - 1) IN P \cup {p \o t : p \in P, t \in T}

\* The flag strings of at most n characters of F.
FlagStrings(F, n) == Concats({<<f>> : f \in F}, n)

Start(patterns, optionSets) ==
  /\ source \in patterns
  /\ options \in optionSets
  /\ pc = "new"
  /\ ps = InitialLocals(<<>>, DefaultOptions, FALSE)
  /\ err = NoError
  /\ regex = NoRegex
  /\ atoms = <<>>
  /\ heap = <<>>
  /\ held = {}
  /\ vimOptions = Undefined

-----------------------------------------------------------------------------
(* Flags.  Patterns of a few tokens, every flag string of at most MaxFlags *)
(* characters, with and without the ignorecase option.                     *)

FlagChars == {"d", "g", "i", "m", "s", "u", "v", "y", "X"}

FlagTokens == {<<"a">>, <<"*">>, <<BS, "c">>, <<BS, "z", "s">>}

InitFlags ==
  Start(Concats(FlagTokens, MaxTokens),
        {[flags |-> f, ignorecase |-> ic] : f \in FlagStrings(FlagChars, MaxFlags), ic \in BOOLEAN})

SpecFlags == InitFlags /\ [][Next]_vars

CallerFlags == mergedOptions(options).flags

Chars(str) == {str[i] : i \in 1..Len(str)}

\* C1: whenever construction succeeds, the flags of the compiled pattern
\* contain s and v and neither m nor u, and are exactly the caller's flags
\* plus s, v and (if ignore-case is in force when compilation ends) i, each
\* flag once.
C1_FinalFlags ==
  pc = "done" =>
    /\ {"s", "v"} \subseteq Chars(regex.flags)
    /\ Chars(regex.flags) \cap {"m", "u"} = {}
    /\ Chars(regex.flags) = Chars(CallerFlags) \cup {"s", "v"} \cup (IF ps.ignorecase THEN {"i"} ELSE {})
    /\ \A i, j \in 1..Len(regex.flags) : regex.flags[i] = regex.flags[j] => i = j

\* C1 witness: a caller's "g" compiled with \c in the pattern gives "gisv".
C1_Witness ==
  /\ pc = "done"
  /\ CallerFlags = <<"g">>
  /\ ps.ignorecase
  /\ regex.flags = <<"g", "i", "s", "v">>

ReportsInvalidFlags(e) ==
  /\ e.kind = "VimRegExpSyntaxError"
  /\ e.message \in {"Invalid flags supplied to VimRegExp constructor", "Invalid flags supplied to RegExp constructor"}

AcceptedFlagChars == {"d", "g", "i", "y", "s", "v"}

DistinctChars(str) == \A i, j \in 1..Len(str) : str[i] = str[j] => i = j

\* A flag string of distinct accepted characters is never the reason of a
\* failure, and s and v in it change nothing of the outcome's flags.
FlagsAccepted ==
  (Chars(CallerFlags) \subseteq AcceptedFlagChars /\ DistinctChars(CallerFlags)) =>
    /\ ~ReportsInvalidFlags(err)
    /\ pc = "done" => Chars(regex.flags) \ {"s", "v"} = (Chars(CallerFlags) \ {"s", "v"}) \cup (IF ps.ignorecase THEN {"i"} ELSE {})

\* C2 as stated: distinct flags of d, g, i, y, s, v are accepted; a flag
\* string with m, u or any other character makes construction fail with an
\* InvalidPattern error reporting invalid flags, and no wrapper is produced.
C2_AsStated ==
  /\ FlagsAccepted
  /\ ~(Chars(CallerFlags) \subseteq AcceptedFlagChars) =>
       /\ pc # "done" /\ regex = NoRegex
       /\ pc = "error" => ReportsInvalidFlags(err)

\* C2 amended: distinct flags of d, g, i, y, s, v are accepted; with m or u
\* construction fails with the invalid-flags error before any of the pattern
\* is read; with any other character it fails as well and produces no
\* wrapper, the error reporting invalid flags whenever the pattern itself
\* was compiled to the end (the host sees the flags first), and being the
\* pattern's own error otherwise.
C2_FlagAcceptance ==
  /\ FlagsAccepted
  /\ ~(Chars(CallerFlags) \subseteq AcceptedFlagChars) =>
       /\ pc # "done" /\ regex = NoRegex
       /\ (pc = "error" /\ Chars(CallerFlags) \cap {"m", "u"} # {}) =>
            /\ err = InvalidFlags(CallerFlags)
            /\ atoms = <<>> /\ ps.index = 0
       /\ (pc = "error" /\ Chars(CallerFlags) \cap {"m", "u"} = {}) =>
            IF err.cause = "SyntaxError" THEN ReportsInvalidFlags(err) /\ ps.index >= Len(source)
            ELSE err.index # Undefined /\ ~ReportsInvalidFlags(err)

\* C2 witness: flags "X" with a pattern that compiles are refused by the host.
C2_Witness ==
  /\ pc = "error"
  /\ CallerFlags = <<"X">>
  /\ source = <<"a">>
  /\ ReportsInvalidFlags(err)
  /\ err.cause = "SyntaxError"

-----------------------------------------------------------------------------
(* Case.  Patterns of letters, case switches, escaped atoms with an        *)
(* upper-case letter and a star; flags with and without i; every           *)
(* combination of the ignorecase and smartcase options.                    *)

CaseTokens ==
  { <<"a">>, <<"A">>, <<"c">>, <<"*">>, <<BS, BS>>, <<BS, "c">>, <<BS, "C">>, <<BS, "S">>, <<BS, "_", "S">>,
    <<BS, "%", "U", "2", "0", "A", "C">> }

InitCase ==
  Start(Concats(CaseTokens, MaxTokens),
        {[flags |-> f, ignorecase |-> ic, smartcase |-> sc] : f \in {<<>>, <<"i">>, <<"g">>}, ic \in BOOLEAN, sc \in BOOLEAN})

SpecCase == InitCase /\ [][Next]_vars

\* The last of the switches \c and \C in src from position i on, read left
\* to right with every backslash taking the character after it; `last` if
\* there is none.
RECURSIVE LastCaseSwitch(_, _, _)
LastCaseSwitch(src, i, last) ==
  IF i >= Len(src) THEN last
  ELSE IF At(src, i) = BS
  THEN LastCaseSwitch(src, i + 2, IF At(src, i + 1) \in {"c", "C"} THEN At(src, i + 1) ELSE last)
  ELSE LastCaseSwitch(src, i + 1, last)

\* The ignorecase option as the smartcase option lets it stand before the
\* pattern is read.
IgnoreCaseInEffect ==
  mergedOptions(options).ignorecase /\ ~(mergedOptions(options).smartcase /\ HasUpperCase(source, 0))

\* C3: whenever construction succeeds, the final flags contain i if the
\* caller's flags do; otherwise, if the pattern has a \c or \C, exactly when
\* the last of them is \c, wherever they stand; otherwise exactly when the
\* ignorecase option is in effect.
C3_IgnoreCasePrecedence ==
  pc = "done" =>
    ("i" \in Chars(regex.flags)) =
      ( IF "i" \in Chars(CallerFlags) THEN TRUE
        ELSE IF LastCaseSwitch(source, 0, "none") # "none" THEN LastCaseSwitch(source, 0, "none") = "c"
        ELSE IgnoreCaseInEffect )

\* C3 witness: \C, a letter, then \c with the option off compiles with i.
C3_Witness ==
  /\ pc = "done"
  /\ source = <<BS, "C", "a", BS, "c">>
  /\ ~mergedOptions(options).ignorecase
  /\ CallerFlags = <<>>
  /\ regex.flags = <<"i", "s", "v">>

\* An upper-case letter of the pattern stands outside every backslash-escaped
\* atom: in the text of a loop iteration that began without a backslash.
UpperCaseOutsideEscapes ==
  \E k \in 1..Len(atoms) :
    /\ ~atoms[k].backslash
    /\ \E i \in atoms[k].atomIndex..(atoms[k].end - 1) : At(source, i) \in UpperCase

\* C4 as stated: with ignorecase and smartcase on, no \c or \C in the
\* pattern and no caller i flag, the final flags contain i if and only if
\* no upper-case letter stands outside a backslash-escaped atom (the S of \S
\* and \_S and the letters of \%U20AC do not count).
C4_AsStated ==
  ( /\ pc = "done"
    /\ mergedOptions(options).ignorecase /\ mergedOptions(options).smartcase
    /\ LastCaseSwitch(source, 0, "none") = "none"
    /\ "i" \notin Chars(CallerFlags) ) =>
    ("i" \in Chars(regex.flags)) = ~UpperCaseOutsideEscapes

-----------------------------------------------------------------------------
(* Magic level.  Patterns of mode switches and of tokens whose role        *)
(* depends on the level, under both values of the magic option.            *)

MagicTokens ==
  { <<"a">>, <<"v">>, <<".">>, <<BS, ".">>, <<"+">>, <<BS, "+">>, <<BS, BS>>,
    <<BS, "v">>, <<BS, "m">>, <<BS, "M">>, <<BS, "V">> }

InitMagic == Start(Concats(MagicTokens, MaxTokens), {[magic |-> m] : m \in BOOLEAN})

SpecMagic == InitMagic /\ [][Next]_vars

SwitchLevel == [v |-> VERY_MAGIC, m |-> MAGIC, M |-> NOMAGIC, V |-> VERY_NOMAGIC]

\* The level the switches of src[i .. upto) leave, starting from `level`;
\* every backslash takes the character after it.
RECURSIVE LevelAt(_, _, _, _)
LevelAt(src, i, upto, level) ==
  IF i >= upto THEN level
  ELSE IF At(src, i) = BS
  THEN LevelAt(src, i + 2, upto, IF At(src, i + 1) \in DOMAIN SwitchLevel THEN SwitchLevel[At(src, i + 1)] ELSE level)
  ELSE LevelAt(src, i + 1, upto, level)

InitialLevel == IF mergedOptions(options).magic THEN MAGIC ELSE NOMAGIC

\* The level of the most recent switch left of position n, or the initial one
LevelLeftOf(n) == LevelAt(source, 0, n, InitialLevel)

-----------------------------------------------------------------------------
(* Metacharacter thresholds.  A level prefix, an atom, one of the tokens   *)
(* in its bare or escaped form, and what may follow it.                    *)

LevelPrefixes == {<<>>, <<BS, "v">>, <<BS, "m">>, <<BS, "M">>, <<BS, "V">>}

\* '*', '.', '[', '~': bare up to magic, escaped from nomagic on
EarlyChars == {"*", ".", "[", "~"}

\* the others: bare at very-magic only, escaped from magic on
LateChars == {"+", "=", "?", "{", "@", "(", ")", "|", "&", "%", "<", ">"}

ThresholdChars == EarlyChars \cup LateChars

ThresholdForms == {<<c>> : c \in ThresholdChars} \cup {<<BS, c>> : c \in ThresholdChars}

ThresholdTails == {<<"b">>, <<"2">>, <<"=">>, <<"(">>, <<"]">>, <<"}">>, <<BS, ")">>}

InitMeta ==
  Start({prefix \o <<"a">> \o form \o tail :
           prefix \in LevelPrefixes, form \in ThresholdForms, tail \in Concats(ThresholdTails, MaxTokens - 1)},
        {[magic |-> m] : m \in BOOLEAN})

SpecMeta == InitMeta /\ [][Next]_vars

\* The form (bare or escaped) of c that the claim makes the metacharacter at level L
IsMetaForm(c, backslash, L) ==
  IF c \in EarlyChars THEN (IF backslash THEN L >= NOMAGIC ELSE L <= MAGIC)
  ELSE (IF backslash THEN L >= MAGIC ELSE L <= VERY_MAGIC)

\* The characters the host reads as syntax, which a literal must escape
HostSyntaxChars == {"*", ".", "[", "]", "+", "?", "{", "}", "(", ")", "|", "^", "$", BS}

\* c emitted as a literal of that character
LiteralOf(c) == IF c \in HostSyntaxChars THEN "\\" \o c ELSE c

\* The token of chars that record r is about stands after an atom; for '['
\* the collection is closed by a ']'.
AfterAtom(r, chars) ==
  /\ r.c \in chars
  /\ r.hadAtom
  /\ r.c = "[" => \E i \in r.atomIndex..(Len(source) - 1) : At(source, i) = "]"

\* For the tokens of chars after an atom: the form the claim makes the
\* metacharacter is not emitted as the literal, the other form is; and only
\* a metacharacter form is ever refused.
Thresholds(chars) ==
  /\ \A k \in 1..Len(atoms) :
       AfterAtom(atoms[k], chars) =>
         (atoms[k].after = Append(atoms[k].before, <<LiteralOf(atoms[k].c)>>))
           = ~IsMetaForm(atoms[k].c, atoms[k].backslash, LevelLeftOf(atoms[k].atomIndex))
  /\ (pc = "error" /\ err.cause = "none" /\ err.index # Undefined) =>
       LET backslash == At(source, ps.atomIndex) = BS
           c == At(source, IF backslash THEN ps.atomIndex + 1 ELSE ps.atomIndex)
       IN  (c \in chars /\ hasAtom(ps)) => IsMetaForm(c, backslash, LevelLeftOf(ps.atomIndex))

\* C6 as stated: at every level, of the bare and the escaped form of each of
\* * . [ ~ + = ? { @ ( ) | & % < > standing after an atom exactly one is the
\* metacharacter and the other is emitted as a literal of the character:
\* for * . [ ~ the bare form up to magic and the escaped form from nomagic
\* on, for the others the bare form at very-magic only and the escaped form
\* from magic on.
C6_AsStated == Thresholds(ThresholdChars)

-----------------------------------------------------------------------------
(* Nothing to repeat.  A level prefix, the start of a concat (the start of *)
(* the pattern, or an opening token in either form), and a quantifier in   *)
(* either form.                                                            *)

Openers ==
  { <<>>, <<BS, "(">>, <<"(">>, <<BS, "%", "(">>, <<"%", "(">>,
    <<"a", BS, "|">>, <<"a", "|">>, <<"a", BS, "&">>, <<"a", "&">> }

QuantifierBodies ==
  { <<"*">>, <<"+">>, <<"=">>, <<"?">>, <<"{", "}">>, <<"{", "-", "}">>, <<"{", "2", ",", "3", "}">>, <<"{", "-", "1", ",", "}">>,
    <<"@", "=">>, <<"@", "!">>, <<"@", "<", "=">>, <<"@", "<", "!">>, <<"@", "2", "<", "=">> }

QuantifierForms == QuantifierBodies \cup {<<BS>> \o q : q \in QuantifierBodies}

RepeatTails == {<<"a">>, <<BS, ")">>, <<")">>, <<BS, "z", "s">>}

InitRepeat ==
  Start({prefix \o open \o q \o tail :
           prefix \in LevelPrefixes, open \in Openers, q \in QuantifierForms, tail \in Concats(RepeatTails, MaxTokens - 2)},
        {[magic |-> m] : m \in BOOLEAN})

SpecRepeat == InitRepeat /\ [][Next]_vars

StartsWith(s, p) == Len(p) <= Len(s) /\ SubSeq(s, 1, Len(p)) = p

\* The level after the (possibly empty) prefix
LevelAfter(prefix) == LevelAt(prefix, 0, Len(prefix), InitialLevel)

\* The opening token is the metacharacter at level L (the start of the
\* pattern is a start at every level).
OpensConcat(open, L) ==
  open = <<>> \/ (IF BS \in Chars(open) THEN L >= MAGIC ELSE L <= VERY_MAGIC)

\* The quantifier is in its metacharacter form at level L: \* at the
\* nomagic levels; the others escaped from magic on and bare at very-magic.
RepeatsAt(q, L) ==
  IF q = <<BS, "*">> THEN L >= NOMAGIC
  ELSE IF q = <<"*">> THEN FALSE
  ELSE IF Head(q) = BS THEN L >= MAGIC ELSE L <= VERY_MAGIC

ReportsNothingToRepeat(e) == e.kind = "VimRegExpSyntaxError" /\ e.message = "Nothing to repeat"

\* C7 as stated: at every level a quantifier in its metacharacter form that
\* stands where the concat has no atom yet (start of pattern, directly after
\* \( \%( \| or \&) makes construction fail with InvalidPattern "Nothing to
\* repeat"; a bare * at the start of the pattern is a literal star.
C7_AsStated ==
  /\ \A prefix \in LevelPrefixes, open \in Openers, q \in QuantifierForms :
       ( /\ StartsWith(source, prefix \o open \o q)
         /\ OpensConcat(open, LevelAfter(prefix))
         /\ RepeatsAt(q, LevelAfter(prefix)) ) =>
         /\ pc # "done"
         /\ pc = "error" => ReportsNothingToRepeat(err)
  /\ \A prefix \in LevelPrefixes :
       (StartsWith(source, prefix \o <<"*">>) /\ LevelAfter(prefix) <= MAGIC /\ Len(atoms) > Len(prefix) \div 2) =>
         atoms[Len(prefix) \div 2 + 1].after = <<<<"\\*">>>>

-----------------------------------------------------------------------------
(* Line anchors.  A level prefix and a few tokens of: the anchor in both   *)
(* forms, an atom, the tokens that open or close a branch, line feeds in   *)
(* three spellings, a case switch and a star; with stringMatch on and off. *)

CaretTokens ==
  { <<"^">>, <<BS, "^">>, <<"a">>, <<"*">>, <<BS, "|">>, <<BS, "(">>, <<BS, ")">>, <<BS, "%", "(">>, <<BS, "&">>,
    <<BS, "n">>, <<"\n">>, <<BS, "%", "d", "1", "0">>, <<BS, "c">> }

InitCaret ==
  Start({prefix \o body : prefix \in LevelPrefixes, body \in Concats(CaretTokens, MaxTokens)},
        {[stringMatch |-> sm] : sm \in BOOLEAN})

SpecCaret == InitCaret /\ [][Next]_vars

\* The source text of the loop iteration r
TokenText(r) == Slice(source, r.atomIndex, r.end)

IsSwitch(r) == r.backslash /\ r.c \in {"c", "C", "v", "m", "M", "V"}

\* The anchors are bare up to nomagic and escaped at very-nomagic
AnchorCapable(r) ==
  IF r.backslash THEN LevelLeftOf(r.atomIndex) >= VERY_NOMAGIC ELSE LevelLeftOf(r.atomIndex) <= NOMAGIC

\* The index in atoms of the token before the k-th, switches skipped; 0 if none
RECURSIVE Preceding(_)
Preceding(k) == IF k <= 1 THEN 0 ELSE IF IsSwitch(atoms[k - 1]) THEN Preceding(k - 1) ELSE k - 1

\* r is \| \( \%( or \& in its metacharacter form
OpensBranch(r) ==
  /\ IsMetaForm(r.c, r.backslash, LevelLeftOf(r.atomIndex))
  /\ \/ r.c \in {"|", "(", "&"}
     \/ r.c = "%" /\ Last(TokenText(r)) = "("

\* r is a line feed: \n only, or also a raw line feed and the code atom \%d10
IsLineFeed(r, spellings) ==
  \/ TokenText(r) = <<BS, "n">>
  \/ spellings /\ TokenText(r) = <<"\n">>
  \/ spellings /\ r.c = "%" /\ IsMetaForm(r.c, r.backslash, LevelLeftOf(r.atomIndex)) /\ Slice(TokenText(r), 2, 5) = <<"d", "1", "0">>

StringMatch == mergedOptions(options).stringMatch

\* Every '^': in anchor-capable form it is the start-of-line anchor exactly
\* at the start of a branch (nothing but switches before it, or right after
\* an opening token or a line feed) and the literal \^ elsewhere; the anchor
\* is '^' with stringMatch (the flags never have m) and without it the
\* group that also matches behind a line feed (right after a line feed, the
\* empty group).
CaretRule(spellings) ==
  \A k \in 1..Len(atoms) :
    LET r == atoms[k]
        p == Preceding(k)
        afterFeed == p # 0 /\ IsLineFeed(atoms[p], spellings)
        atStart == p = 0 \/ OpensBranch(atoms[p]) \/ afterFeed
        anchor == IF StringMatch THEN <<"^">>
                  ELSE IF afterFeed THEN <<"(?:", ")">>
                  ELSE <<"(?:", "^", "|", "(?<=", "\\n", ")", ")">>
    IN  r.c = "^" =>
          r.after = Append(r.before, IF AnchorCapable(r) /\ atStart THEN anchor ELSE <<"\\^">>)

\* C8 as stated: '^' in anchor-capable form is the anchor if and only if it
\* stands at the beginning of the pattern or immediately after \| \( \%( \&
\* or \n, and the literal \^ everywhere else.
C8_AsStated == CaretRule(FALSE)

\* C8 amended: as stated, where "immediately after \n" is immediately after
\* a line feed in any spelling (\n, a raw line feed, a character-code atom
\* of value 10 such as \%d10), and mode and case switches between the start
\* of the branch and the '^' do not count.
C8_CaretAnchor == CaretRule(TRUE)

\* C8 witness: of two '^' at the start of the pattern the first compiled to
\* the anchor group and the second to the literal.
C8_Witness ==
  /\ pc = "done"
  /\ source = <<"^", "^">>
  /\ ~StringMatch
  /\ regex.source = <<"(?:", "^", "|", "(?<=", "\\n", ")", ")", "\\^">>

-----------------------------------------------------------------------------
(* '$'.  The same shape of patterns with '$' in both forms.                *)

DollarTokens ==
  { <<"$">>, <<BS, "$">>, <<"a">>, <<"*">>, <<BS, "|">>, <<BS, "(">>, <<BS, ")">>, <<BS, "&">>, <<BS, "n">>, <<BS, "c">> }

InitDollar ==
  Start({prefix \o body : prefix \in LevelPrefixes, body \in Concats(DollarTokens, MaxTokens + 1)},
        {[stringMatch |-> sm] : sm \in BOOLEAN})

SpecDollar == InitDollar /\ [][Next]_vars

\* The index in atoms of the token after the k-th, switches skipped; 0 if none
RECURSIVE Following(_)
Following(k) == IF k >= Len(atoms) THEN 0 ELSE IF IsSwitch(atoms[k + 1]) THEN Following(k + 1) ELSE k + 1

\* r is \) \| or \& in its metacharacter form, or \n
ClosesBranch(r) ==
  \/ r.c \in {")", "|", "&"} /\ IsMetaForm(r.c, r.backslash, LevelLeftOf(r.atomIndex))
  \/ TokenText(r) = <<BS, "n">>

EndAnchor == IF StringMatch THEN <<"$">> ELSE <<"(?:", "(?=", "\\n", ")", "|", "$", ")">>

\* The items of the buffer that come from a '$', in order
DollarItems(buf) == SelectSeq(buf, LAMBDA item : item \in {EndAnchor, <<"\\$">>})

\* The number of '$' tokens among the first k iterations
DollarsUpTo(k) == Cardinality({j \in 1..k : atoms[j].c = "$"})

\* C9 as stated: whenever construction succeeds, each '$' in anchor-capable
\* form is in the emitted source the end-of-line anchor if no further atom
\* follows it before its branch is closed by \) \| \& \n or the end of the
\* pattern, and the literal \$ if a further atom follows it in its branch
\* (a quantifier right after the '$' is left open); the anchor is '$' with
\* stringMatch and the group that also matches before a line feed without.
C9_AsStated ==
  pc = "done" =>
    \A k \in 1..Len(atoms) :
      LET r == atoms[k]
          n == Following(k)
          closed == n = 0 \/ ClosesBranch(atoms[n])
          repeated == n # 0 /\ atoms[n].c \in QuantifierChars
      IN  (r.c = "$" /\ AnchorCapable(r) /\ ~repeated) =>
            DollarItems(ps.resPattern)[DollarsUpTo(k)] = (IF closed THEN EndAnchor ELSE <<"\\$">>)

-----------------------------------------------------------------------------
(* Unsupported constructs.  A lead of atoms and mode switches, then one of *)
(* the constructs, bare or escaped.                                        *)

LeadTokens == {<<"a">>, <<BS, "v">>, <<BS, "m">>, <<BS, "M">>, <<BS, "V">>}

AnchorSides == {<<>>, <<"<">>, <<">">>}

\* What follows the '%': \%V \%# \%#= \%[ \%C, the marks and the line,
\* column and virtual-column anchors
PercentBodies ==
  {<<"V">>, <<"#">>, <<"#", "=">>, <<"[">>, <<"C">>}
    \cup {side \o <<"'", "m">> : side \in AnchorSides}
    \cup {side \o n \o <<unit>> : side \in AnchorSides, n \in {<<"2", "3">>, <<".">>}, unit \in {"l", "c", "v"}}

\* The constructs as written without their backslash, each with its family
Constructs ==
  {[family |-> "z", text |-> txt] : txt \in {<<"z", "s">>, <<"z", "e">>, <<"z", "(">>, <<"z", "1">>, <<"z", "9">>, <<"Z">>}}
    \cup {[family |-> "%", text |-> <<"%">> \o body] : body \in PercentBodies}
    \cup {[family |-> "@", text |-> <<"@", ">">>]}
    \cup {[family |-> "[", text |-> txt] : txt \in {<<"[", "[", "=", "a", "=", "]", "]">>, <<"[", "[", ".", "a", ".", "]", "]">>}}
    \cup {[family |-> "~", text |-> <<"~">>]}

FormOf(con, escaped) == IF escaped THEN <<BS>> \o con.text ELSE con.text

InitUnsupported ==
  Start({lead \o FormOf(con, escaped) : lead \in Concats(LeadTokens, MaxTokens - 1), con \in Constructs, escaped \in BOOLEAN},
        {[magic |-> m] : m \in BOOLEAN})

SpecUnsupported == InitUnsupported /\ [][Next]_vars

\* The token the error names
NameOf(con) ==
  CASE con.family \in {"z", "@"} -> <<BS>> \o con.text
    [] con.family = "%" -> IF con.text = <<"%", "[">> THEN <<BS, "%", "[", "]">> ELSE <<BS>> \o con.text
    [] OTHER -> con.text

\* The pattern ends with this form of con, which starts at n as a token of
\* its own; \@> has an atom before it.
EndsWith(con, escaped, n) ==
  /\ n + Len(FormOf(con, escaped)) = Len(source)
  /\ Slice(source, n, Len(source)) = FormOf(con, escaped)
  /\ n = 0 \/ At(source, n - 1) # BS
  /\ con.family = "@" => \E i \in 0..(n - 1) : At(source, i) = "a"

\* The forms the claim lists: every construct escaped, but the collections
\* bare and '~' in its metacharacter form
ListedForm(con, escaped, L) ==
  CASE con.family = "~" -> IsMetaForm("~", escaped, L)
    [] con.family = "[" -> ~escaped
    [] OTHER -> escaped

\* The form in which the construct is a metacharacter at level L: \z.. and
\* \Z escaped at every level; \%.. and \@> escaped from magic on and bare at
\* very-magic; the collections and '~' bare up to magic and escaped from
\* nomagic on
RefusedForm(con, escaped, L) ==
  CASE con.family = "z" -> escaped
    [] con.family \in {"%", "@"} -> IsMetaForm(Head(con.text), escaped, L)
    [] OTHER -> IsMetaForm(Head(con.text), escaped, L)

Refused(con, n) ==
  /\ pc # "done" /\ regex = NoRegex
  /\ pc = "error" => err = UnsupportedSyntaxError(NameOf(con), source, n)

\* C10 as stated: each of the listed constructs makes construction fail
\* with an UnsupportedFeature error naming it, at every magic level, and no
\* wrapper is produced.
C10_AsStated ==
  \A con \in Constructs, escaped \in BOOLEAN, n \in 0..Len(source) :
    (EndsWith(con, escaped, n) /\ ListedForm(con, escaped, LevelLeftOf(n))) => Refused(con, n)

\* C10 amended: each of the constructs, in the form that is a metacharacter
\* at the level where it stands, makes construction fail with an
\* UnsupportedFeature error naming it, and no wrapper is produced.
C10_Unsupported ==
  \A con \in Constructs, escaped \in BOOLEAN, n \in 0..Len(source) :
    (EndsWith(con, escaped, n) /\ RefusedForm(con, escaped, LevelLeftOf(n))) => Refused(con, n)

\* C10 witness: at very-magic the bare %V is refused, named \%V.
C10_Witness ==
  /\ pc = "error"
  /\ source = <<BS, "v", "%", "V">>
  /\ err = UnsupportedSyntaxError(<<BS, "%", "V">>, source, 2)
  /\ regex = NoRegex

-----------------------------------------------------------------------------
(* Bounded quantifiers.  An atom, then the quantifier in its metacharacter *)
(* form with every shape of bounds.                                        *)

\* The counts written in the patterns, with their values
Counts ==
  { [text |-> <<"0">>, value |-> 0], [text |-> <<"1">>, value |-> 1], [text |-> <<"2">>, value |-> 2],
    [text |-> <<"1", "0">>, value |-> 10], [text |-> <<"1", "2">>, value |-> 12] }

\* What stands between the brace and its close, and what is to be emitted
\* for it when it is not lazy
BraceShapes ==
  {[body |-> n.text \o <<",">> \o m.text,
    emitted |-> "{" \o ToString(IF n.value < m.value THEN n.value ELSE m.value) \o "," \o ToString(m.value) \o "}",
    bare |-> FALSE] : n \in Counts, m \in Counts}
    \cup {[body |-> n.text, emitted |-> "{" \o ToString(n.value) \o "}", bare |-> TRUE] : n \in Counts}
    \cup {[body |-> n.text \o <<",">>, emitted |-> "{" \o ToString(n.value) \o ",}", bare |-> FALSE] : n \in Counts}
    \cup {[body |-> <<",">> \o m.text, emitted |-> "{0," \o ToString(m.value) \o "}", bare |-> FALSE] : m \in Counts}
    \cup {[body |-> <<>>, emitted |-> "*", bare |-> FALSE], [body |-> <<",">>, emitted |-> "*", bare |-> FALSE]}

\* The same with and without the - prefix: the lazy marker follows, but
\* not after a single count
BraceBodies ==
  {[body |-> sh.body, emitted |-> sh.emitted] : sh \in BraceShapes}
    \cup {[body |-> <<"-">> \o sh.body, emitted |-> IF sh.bare THEN sh.emitted ELSE sh.emitted \o "?"] : sh \in BraceShapes}

\* The atom and the opening brace in its metacharacter form
BraceOpeners == {<<"a", BS, "{">>, <<BS, "v", "a", "{">>, <<BS, "V", "a", BS, "{">>}

InitBrace ==
  Start({open \o b.body \o <<"}">> : open \in BraceOpeners, b \in BraceBodies},
        {[magic |-> m] : m \in BOOLEAN})

SpecBrace == InitBrace /\ [][Next]_vars

\* C11: after an atom, \{n,m} emits {min(n,m),m}, \{n} emits {n}, \{n,}
\* emits {n,}, \{,m} emits {0,m}, \{} and \{,} emit *; with the - prefix
\* the same followed by the lazy marker ?, except that \{-n} emits {n}.
C11_BoundedQuantifiers ==
  \A open \in BraceOpeners, b \in BraceBodies :
    source = open \o b.body \o <<"}">> =>
      /\ pc # "error"
      /\ pc = "done" => Join(regex.source) = "a" \o b.emitted

\* C11 witness: \{10,2} after an atom is emitted clamped to {2,2}.
C11_Witness ==
  /\ pc = "done"
  /\ source = <<"a", BS, "{", "1", "0", ",", "2", "}">>
  /\ Join(regex.source) = "a{2,2}"

-----------------------------------------------------------------------------
(* Back-references.  Capturing groups, non-capturing groups and groups     *)
(* followed by a lookaround quantifier, each holding one letter of its     *)
(* own, then a back-reference.                                             *)

GroupTokens ==
  { <<BS, "(", "a", BS, ")">>,
    <<BS, "%", "(", "b", BS, ")">>,
    <<BS, "(", "c", BS, ")", BS, "@", "=">>,
    <<BS, "(", "d", BS, ")", BS, "@", "<", "!">>,
    <<BS, "(", "e", BS, "(", "f", BS, ")", BS, ")">> }

BackRefTokens == {<<BS, "1">>, <<BS, "2">>, <<BS, "3">>, <<BS, "1", "0">>}

InitBackRef ==
  Start({groups \o ref : groups \in Concats(GroupTokens, MaxTokens), ref \in BackRefTokens}, {[magic |-> TRUE]})

SpecBackRef == InitBackRef /\ [][Next]_vars

\* The letters that follow the \( of the Vim source, in order
RECURSIVE VimCaptureLetters(_, _)
VimCaptureLetters(src, i) ==
  IF i >= Len(src) THEN <<>>
  ELSE IF At(src, i) # BS THEN VimCaptureLetters(src, i + 1)
  ELSE IF At(src, i + 1) = "(" THEN <<At(src, i + 2)>> \o VimCaptureLetters(src, i + 3)
  ELSE VimCaptureLetters(src, i + 2)

\* The letters that follow the capturing parentheses of the emitted
\* source, in order: the host numbers its groups by them
RECURSIVE HostCaptureLetters(_, _)
HostCaptureLetters(lexemes, i) ==
  IF i > Len(lexemes) THEN <<>>
  ELSE IF lexemes[i] = "(" THEN <<At(lexemes, i)>> \o HostCaptureLetters(lexemes, i + 1)
  ELSE HostCaptureLetters(lexemes, i + 1)

\* C12 as stated: the emitted back-reference for \N refers to the group
\* opened by the N-th \( of the Vim source, whatever non-capturing groups
\* and lookaround quantifiers stand among the groups; \10 is the
\* back-reference \1 followed by the literal character 0.
C12_AsStated ==
  \A groups \in Concats(GroupTokens, MaxTokens), ref \in BackRefTokens :
    LET n == DigitValue(ref[2])
        vim == VimCaptureLetters(groups, 0)
        host == HostCaptureLetters(regex.source, 1)
        tail == <<"(?:", "\\" \o ref[2], ")">> \o (IF Len(ref) = 3 THEN <<"0">> ELSE <<>>)
    IN  (source = groups \o ref /\ n <= Len(vim)) =>
          /\ pc # "error"
          /\ pc = "done" =>
               /\ Len(regex.source) >= Len(tail)
               /\ SubSeq(regex.source, Len(regex.source) - Len(tail) + 1, Len(regex.source)) = tail
               /\ n <= Len(host)
               /\ host[n] = vim[n]

-----------------------------------------------------------------------------
(* Literal runs.  Every run of at most MaxRun printable ASCII characters   *)
(* that are no metacharacters of the magic level.                          *)

MaxRun == 2

MagicMetaChars == {BS, "^", "$", ".", "*", "[", "~"}

RunChars == {Printable[i] : i \in 1..Len(Printable)} \ MagicMetaChars

InitRun == Start(Concats({<<c>> : c \in RunChars}, MaxRun), {[magic |-> TRUE]})

SpecRun == InitRun /\ [][Next]_vars

\* The character a lexeme of the emitted source stands for as a literal:
\* itself, or the escaped character of the host's syntax; "" if the lexeme
\* is no literal
HostLiteralChar(lexeme) ==
  IF \E c \in HostSyntaxChars : lexeme = "\\" \o c THEN CHOOSE c \in HostSyntaxChars : lexeme = "\\" \o c
  ELSE IF lexeme \in RunChars \ HostSyntaxChars THEN lexeme
  ELSE ""

\* The run of C13 is accepted and emitted as literals of its characters
\* when it is made of `chars`.
LiteralRun(chars) ==
  (\A i \in 1..Len(source) : source[i] \in chars) =>
    /\ pc # "error"
    /\ pc = "done" => regex.source = [i \in 1..Len(source) |-> LiteralOf(source[i])]
    /\ pc = "done" => [i \in 1..Len(regex.source) |-> HostLiteralChar(regex.source[i])] = source

\* C13 as stated: at the default magic level every run of printable ASCII
\* characters that contains no magic-level metacharacter (backslash, ^, $,
\* ., *, [, ~) is accepted, and the emitted source is a sequence of host
\* literals that matches exactly the run.
C13_AsStated == LiteralRun(RunChars)

-----------------------------------------------------------------------------
(* Collection membership.  A collection of at most MaxTokens items, with   *)
(* and without the leading ^, repeated by a star.                          *)

\* The items of the collections and the code points each denotes in Vim:
\* plain characters, reserved punctuation of the host's v mode, a range,
\* and the backslash escapes
CollectionItems ==
  { [text |-> <<"a">>, codes |-> {97}], [text |-> <<"c">>, codes |-> {99}],
    [text |-> <<"#">>, codes |-> {35}], [text |-> <<"&">>, codes |-> {38}],
    [text |-> <<"a", "-", "c">>, codes |-> {97, 98, 99}],
    [text |-> <<BS, "]">>, codes |-> {93}], [text |-> <<BS, "^">>, codes |-> {94}],
    [text |-> <<BS, "-">>, codes |-> {45}], [text |-> <<BS, BS>>, codes |-> {92}],
    [text |-> <<BS, "e">>, codes |-> {27}], [text |-> <<BS, "t">>, codes |-> {9}],
    [text |-> <<BS, "r">>, codes |-> {13}], [text |-> <<BS, "b">>, codes |-> {8}],
    [text |-> <<BS, "n">>, codes |-> {10}] }

InitCollection ==
  Start({<<"[">> \o inverse \o items \o <<"]", "*">> :
           inverse \in {<<>>, <<"^">>},
           items \in Concats({item.text : item \in CollectionItems}, MaxTokens) \ {<<>>}},
        {[magic |-> TRUE]})

SpecCollection == InitCollection /\ [][Next]_vars

\* The class atoms of the host that stand for one code point each
HostClassAtoms ==
  { [text |-> "a", code |-> 97], [text |-> "b", code |-> 98], [text |-> "c", code |-> 99],
    [text |-> "\\x61", code |-> 97], [text |-> "\\x63", code |-> 99],
    [text |-> "\\x23", code |-> 35], [text |-> "\\x26", code |-> 38],
    [text |-> "\\x5d", code |-> 93], [text |-> "\\]", code |-> 93],
    [text |-> "\\x5e", code |-> 94], [text |-> "\\^", code |-> 94],
    [text |-> "\\x2d", code |-> 45], [text |-> "\\-", code |-> 45],
    [text |-> "\\x5c", code |-> 92], [text |-> "\\\\", code |-> 92],
    [text |-> "\\x1b", code |-> 27],
    [text |-> "\\x09", code |-> 9], [text |-> "\\t", code |-> 9],
    [text |-> "\\x0d", code |-> 13], [text |-> "\\r", code |-> 13],
    [text |-> "\\x08", code |-> 8], [text |-> "\\b", code |-> 8],
    [text |-> "\\x0a", code |-> 10], [text |-> "\\n", code |-> 10] }

\* The class texts of the host that match exactly the code points `codes`:
\* for one code point an atom of it, alone or twice; for more the range
\* from the least to the greatest
HostClassTexts(codes) ==
  IF Cardinality(codes) = 1
  THEN {t.text : t \in {h \in HostClassAtoms : h.code \in codes}}
         \cup {t.text \o u.text : t, u \in {h \in HostClassAtoms : h.code \in codes}}
  ELSE {lo.text \o "-" \o hi.text :
          lo \in {h \in HostClassAtoms : \A n \in codes : h.code <= n},
          hi \in {h \in HostClassAtoms : \A n \in codes : h.code >= n}}

\* The items of the collection body str[i..], in order
RECURSIVE ItemsOf(_, _)
ItemsOf(str, i) ==
  IF i >= Len(str) THEN <<>>
  ELSE LET n == IF At(str, i) = BS THEN 2 ELSE IF At(str, i + 1) = "-" THEN 3 ELSE 1
       IN  <<CHOOSE item \in CollectionItems : item.text = Slice(str, i, i + n)>> \o ItemsOf(str, i + n)

\* The class bodies that match exactly what the items denote together
RECURSIVE ClassBodies(_)
ClassBodies(items) ==
  IF items = <<>> THEN {""}
  ELSE {t \o rest : t \in HostClassTexts(Head(items).codes), rest \in ClassBodies(Tail(items))}

\* C14 as stated: for a collection of plain characters, reserved
\* punctuation, ranges and the escapes \] \^ \- \\ \e \t \r \b \n, the
\* emitted class matches exactly the code points the collection denotes:
\* every item contributes its own code points and nothing else, and a
\* leading ^ complements the set.
C14_AsStated ==
  (pc \in {"done", "error"} /\ Len(source) > 3) =>
    LET inverse == source[2] = "^"
        items == ItemsOf(SubSeq(source, IF inverse THEN 3 ELSE 2, Len(source) - 2), 0)
    IN  /\ pc = "done"
        /\ Len(regex.source) = 2
        /\ regex.source[2] = "*"
        /\ \E body \in ClassBodies(items) : regex.source[1] = "[" \o (IF inverse THEN "^" ELSE "") \o body \o "]"

-----------------------------------------------------------------------------
(* Numeric character references outside a collection.                      *)

\* The references of the patterns: the digits written after \%d \%o \%x
\* \%u \%U, how many of them belong to the reference, and what the
\* reference is to match: the code point `code`, or nothing when the value
\* is above 0x10FFFF
NumericRefs ==
  {
    [kind |-> "d", digits |-> <<"6", "5">>, consumed |-> 2, matches |-> "code", code |-> 65],
    [kind |-> "d", digits |-> <<"1", "1", "1", "4", "1", "1", "1">>, consumed |-> 7, matches |-> "code", code |-> 1114111],
    [kind |-> "d", digits |-> <<"1", "1", "1", "4", "1", "1", "2">>, consumed |-> 7, matches |-> "nothing", code |-> 0],
    [kind |-> "d", digits |-> <<"0">>, consumed |-> 1, matches |-> "code", code |-> 0],
    [kind |-> "o", digits |-> <<"1", "0", "1">>, consumed |-> 3, matches |-> "code", code |-> 65],
    [kind |-> "o", digits |-> <<"3", "7", "7">>, consumed |-> 3, matches |-> "code", code |-> 255],
    [kind |-> "o", digits |-> <<"4", "0", "0">>, consumed |-> 2, matches |-> "code", code |-> 32],
    [kind |-> "o", digits |-> <<"4", "7">>, consumed |-> 2, matches |-> "code", code |-> 39],
    [kind |-> "o", digits |-> <<"5", "1", "2">>, consumed |-> 2, matches |-> "code", code |-> 41],
    [kind |-> "x", digits |-> <<"4", "1">>, consumed |-> 2, matches |-> "code", code |-> 65],
    [kind |-> "x", digits |-> <<"5", "a", "2">>, consumed |-> 2, matches |-> "code", code |-> 90],
    [kind |-> "x", digits |-> <<"F">>, consumed |-> 1, matches |-> "code", code |-> 15],
    [kind |-> "u", digits |-> <<"2", "0", "a", "c">>, consumed |-> 4, matches |-> "code", code |-> 8364],
    [kind |-> "u", digits |-> <<"0", "0", "e", "9", "f">>, consumed |-> 4, matches |-> "code", code |-> 233],
    [kind |-> "U", digits |-> <<"0", "0", "0", "1", "f", "6", "0", "0">>, consumed |-> 8, matches |-> "code", code |-> 128512],
    [kind |-> "U", digits |-> <<"0", "0", "1", "1", "0", "0", "0", "0">>, consumed |-> 8, matches |-> "nothing", code |-> 0],
    [kind |-> "U", digits |-> <<"7", "f", "f", "f", "f", "f", "f", "f">>, consumed |-> 8, matches |-> "nothing", code |-> 0],
    [kind |-> "U", digits |-> <<"0", "0", "0", "0", "0", "0", "4", "1", "1">>, consumed |-> 8, matches |-> "code", code |-> 65]
  }

\* The tokens of the host and what each matches: one code point, nothing
\* (the empty class) or the empty string (the empty pattern)
HostCodeTokens ==
  {
    [text |-> "\\x41", matches |-> "code", code |-> 65],
    [text |-> "\\u{10ffff}", matches |-> "code", code |-> 1114111],
    [text |-> "\\x00", matches |-> "code", code |-> 0],
    [text |-> "\\xff", matches |-> "code", code |-> 255],
    [text |-> "\\x20", matches |-> "code", code |-> 32],
    [text |-> "\\x27", matches |-> "code", code |-> 39],
    [text |-> "\\x29", matches |-> "code", code |-> 41],
    [text |-> "\\x5a", matches |-> "code", code |-> 90],
    [text |-> "\\x0f", matches |-> "code", code |-> 15],
    [text |-> "\\u20ac", matches |-> "code", code |-> 8364],
    [text |-> "\\xe9", matches |-> "code", code |-> 233],
    [text |-> "\\u{1f600}", matches |-> "code", code |-> 128512],
    [text |-> "[]", matches |-> "nothing", code |-> 0],
    [text |-> "", matches |-> "empty", code |-> 0]
  }

RefText(ref) == <<BS, "%", ref.kind>> \o ref.digits

RefLeads == {<<>>, <<"z", "*">>}

RefTails == {<<>>, <<"z">>}

InitNumericRef ==
  Start({lead \o RefText(ref) \o tail : lead \in RefLeads, ref \in NumericRefs, tail \in RefTails}, {[magic |-> TRUE]})

SpecNumericRef == InitNumericRef /\ [][Next]_vars

\* The digits of the reference that do not belong to it, as the literals
\* that follow
RestDigits(ref) == SubSeq(ref.digits, ref.consumed + 1, Len(ref.digits))

\* C15 as stated: a reference consumes the digits of its width and the
\* digits beyond are literals that follow; the emitted token matches
\* exactly the code point of the consumed digits or, when that value
\* exceeds 0x10FFFF, nothing; it is never a token that matches the empty
\* string.
C15_AsStated ==
  \A lead \in RefLeads, ref \in NumericRefs, tail \in RefTails :
    source = lead \o RefText(ref) \o tail =>
      /\ pc # "error"
      /\ pc = "done" =>
           \E tok \in HostCodeTokens :
             /\ tok.matches = ref.matches
             /\ tok.code = ref.code
             /\ regex.source = lead \o <<tok.text>> \o RestDigits(ref) \o tail

-----------------------------------------------------------------------------
(* patternToCharClass(pattern, options) called on its own.  `source` is    *)
(* its pattern, `options` its options (type "none" when no type is given), *)
(* `regex` the class it returns and `err` what it throws.                  *)

PatternToCharClass ==
  /\ pc = "call"
  /\ \E r \in {patternToCharClass(source, options.type, options.unicode)} :
       IF r.thrown # NoError
       THEN /\ err' = r.thrown
            /\ pc' = "error"
            /\ UNCHANGED regex
       ELSE /\ regex' = [source |-> <<r.class>>, flags |-> <<>>]
            /\ pc' = "done"
            /\ UNCHANGED err
  /\ UNCHANGED <<source, options, ps, atoms, heap, held, vimOptions>>

NextCharClass == PatternToCharClass

\* The entries of E joined by commas, at most n of them
RECURSIVE OptionStrings(_, _)
OptionStrings(E, n) ==
  IF n = 0 THEN {<<>>}
  ELSE LET P == OptionStrings(E, n - 1)
       IN  P \cup {IF p = <<>> THEN e ELSE p \o <<",">> \o e : p \in P, e \in E}

StartCharClass(patterns, optionSets) ==
  /\ source \in patterns
  /\ options \in optionSets
  /\ pc = "call"
  /\ ps = InitialLocals(<<>>, DefaultOptions, FALSE)
  /\ err = NoError
  /\ regex = NoRegex
  /\ atoms = <<>>
  /\ heap = <<>>
  /\ held = {}
  /\ vimOptions = Undefined

-----------------------------------------------------------------------------
(* Option strings: the codes a class lists.                                *)

MaxEntries == 3

\* Well-formed entries: what each is written as, whether it removes, and
\* the codes it names.
OptionEntries ==
  { [text |-> <<"a", "-", "c">>, remove |-> FALSE, codes |-> 97..99],
    [text |-> <<"^", "b">>, remove |-> TRUE, codes |-> {98}],
    [text |-> <<"@">>, remove |-> FALSE, codes |-> ASCII_WORD_CHARS],
    [text |-> <<"^", "@">>, remove |-> TRUE, codes |-> ASCII_WORD_CHARS],
    [text |-> <<"2", "0", "0", "-", "2", "0", "2">>, remove |-> FALSE, codes |-> 200..202],
    [text |-> <<"^", "3", "2", "-", "4", "0">>, remove |-> TRUE, codes |-> 32..40],
    [text |-> <<"1", "6", "1">>, remove |-> FALSE, codes |-> {161}] }

InitOptionString ==
  StartCharClass(OptionStrings({e.text : e \in OptionEntries}, MaxEntries),
                 {[type |-> t, unicode |-> TRUE] : t \in {"none", "isfname", "isprint"}})

SpecOptionString == InitOptionString /\ [][NextCharClass]_vars

\* The entries of an option string, split at its commas
RECURSIVE SplitEntries(_)
SplitEntries(p) ==
  IF \E i \in 1..Len(p) : p[i] = ","
  THEN LET i == CHOOSE k \in 1..Len(p) : p[k] = "," /\ \A j \in 1..(k - 1) : p[j] # ","
       IN  <<SubSeq(p, 1, i - 1)>> \o SplitEntries(SubSeq(p, i + 1, Len(p)))
  ELSE <<p>>

EntriesOf(p) == IF p = <<>> THEN <<>> ELSE SplitEntries(p)

\* The reference: from `set`, the entries applied left to right
RECURSIVE ApplyEntries(_, _, _)
ApplyEntries(table, texts, set) ==
  IF texts = <<>> THEN set
  ELSE LET e == CHOOSE x \in table : x.text = Head(texts)
       IN  ApplyEntries(table, Tail(texts), IF e.remove THEN set \ e.codes ELSE set \cup e.codes)

\* ... and then the overlay of the type
Overlay(type, set) ==
  CASE type = "isfname" -> set \ (160..255)
    [] type = "isprint" -> (set \cup (32..126)) \ (160..255)
    [] OTHER -> set

\* The one way a class lists a set of codes: ascending, a run of two as two
\* codes, a longer run as a range.
RECURSIVE ListedAs(_)
ListedAs(set) ==
  IF set = {} THEN ""
  ELSE LET c == CHOOSE x \in set : \A y \in set : x <= y
           e == CHOOSE x \in set : x >= c /\ (c..x) \subseteq set /\ (x + 1) \notin set
       IN  (IF e = c THEN toCharCode(c, "")
            ELSE IF e = c + 1 THEN toCharCode(c, "") \o toCharCode(e, "")
            ELSE toCharCode(c, "") \o "-" \o toCharCode(e, ""))
           \o ListedAs({x \in set : x > e})

ClassListing(set, tail) == <<"[" \o ListedAs(set \cap (1..255)) \o tail \o "]">>

\* C16: for a well-formed option string and a type among none, isfname and
\* isprint, with Unicode on, the call returns, and the codes 1..255 its class
\* lists are those of the reference: the entries applied left to right from
\* the empty set, then the overlay of the type.
C16_OptionStringSemantics ==
  /\ pc # "error"
  /\ pc = "done" =>
       \E ref \in {Overlay(options.type, ApplyEntries(OptionEntries, EntriesOf(source), {}))} :
         regex.source = ClassListing(ref, UNICODE_CHAR_CLASSES[options.type])

\* The order of the entries decides (a-c,^b loses b; ^b,a-c keeps it), and
\* the overlay of isprint restores what ^32-40 removed.
C16_Witness ==
  /\ pc = "done"
  /\ \/ /\ source = <<"^", "b", ",", "a", "-", "c">>
        /\ options.type = "none"
        /\ regex.source = <<"[\\x61-\\x63]">>
     \/ /\ source = <<"a", "-", "c", ",", "^", "b">>
        /\ options.type = "none"
        /\ regex.source = <<"[\\x61\\x63]">>

-----------------------------------------------------------------------------
(* Option strings: the validation of code ranges.                          *)

\* Entries whose start or end is outside 1..255, or whose start is above
\* its end
BadRangeEntries ==
  { <<"0">>, <<"2", "5", "6">>, <<"c", "-", "a">>, <<"0", "-", "5">>,
    <<"9", "-", "3", "0", "0">>, <<"^", "0">> }

GoodRangeEntries ==
  { [text |-> <<"a", "-", "c">>, remove |-> FALSE, codes |-> 97..99],
    [text |-> <<"1">>, remove |-> FALSE, codes |-> {1}],
    [text |-> <<"2", "5", "5">>, remove |-> FALSE, codes |-> {255}],
    [text |-> <<"^", "b">>, remove |-> TRUE, codes |-> {98}] }

InitCodeRange ==
  StartCharClass(OptionStrings(BadRangeEntries \cup {e.text : e \in GoodRangeEntries}, MaxEntries),
                 {[type |-> t, unicode |-> TRUE] : t \in {"none", "iskeyword"}})

SpecCodeRange == InitCodeRange /\ [][NextCharClass]_vars

\* Where entry k of the entries `texts` starts in their option string
RECURSIVE EntryIndex(_, _)
EntryIndex(texts, k) == IF k = 1 THEN 0 ELSE Len(Head(texts)) + 1 + EntryIndex(Tail(texts), k - 1)

FirstBadRange(texts) ==
  IF \E k \in 1..Len(texts) : texts[k] \in BadRangeEntries
  THEN CHOOSE k \in 1..Len(texts) : texts[k] \in BadRangeEntries /\ \A j \in 1..(k - 1) : texts[j] \notin BadRangeEntries
  ELSE 0

-----------------------------------------------------------------------------
(* Option strings: unicode: false.                                         *)

CharTypes == {"none", "isfname", "isident", "iskeyword", "isprint"}

InitNoUnicode ==
  StartCharClass(OptionStrings({e.text : e \in OptionEntries}, MaxEntries),
                 {[type |-> t, unicode |-> FALSE] : t \in CharTypes})

SpecNoUnicode == InitNoUnicode /\ [][NextCharClass]_vars

\* C18: with unicode: false the call returns, for every type and for no
\* type, a class without Unicode tail that lists no code of 160..255: the
\* codes of the reference below 160, and nothing after them.
C18_NoUnicode ==
  /\ pc # "error"
  /\ pc = "done" =>
       \E ref \in {Overlay(options.type, ApplyEntries(OptionEntries, EntriesOf(source), {}))} :
         regex.source = ClassListing(ref \ (160..255), "")

\* 200-202,a-c for iskeyword, whose class with Unicode on keeps 200..202
\* and carries a tail
C18_Witness ==
  /\ pc = "done"
  /\ source = <<"2", "0", "0", "-", "2", "0", "2", ",", "a", "-", "c">>
  /\ options = [type |-> "iskeyword", unicode |-> FALSE]
  /\ regex.source = <<"[\\x61-\\x63]">>

-----------------------------------------------------------------------------
(* Option strings: the literal ^.                                          *)

\* Entries with and without a literal ^: how each is written, where the
\* literal ^ stands in it, and the codes it names.
CaretEntries ==
  { [text |-> <<"^">>, form |-> "alone", remove |-> FALSE, codes |-> {94}],
    [text |-> <<"A", "-", "^">>, form |-> "range end", remove |-> FALSE, codes |-> 65..94],
    [text |-> <<"^", "^">>, form |-> "inverted", remove |-> TRUE, codes |-> {94}],
    [text |-> <<"^", "^", "-", "a">>, form |-> "inverted range start", remove |-> TRUE, codes |-> 94..97],
    [text |-> <<"^", "-", "^">>, form |-> "range start", remove |-> FALSE, codes |-> {94}],
    [text |-> <<"^", "-", "a">>, form |-> "range start", remove |-> FALSE, codes |-> 94..97],
    [text |-> <<"a", "-", "c">>, form |-> "none", remove |-> FALSE, codes |-> 97..99],
    [text |-> <<"^", "b">>, form |-> "none", remove |-> TRUE, codes |-> {98}] }

InitCaretEntry ==
  StartCharClass(OptionStrings({e.text : e \in CaretEntries}, MaxEntries),
                 {[type |-> t, unicode |-> TRUE] : t \in {"none", "isident"}})

SpecCaretEntry == InitCaretEntry /\ [][NextCharClass]_vars

\* The first entry of `texts` that is a ^ alone before the end or has one of
\* the forms `refused`; 0 if there is none.
FirstRefusedCaret(texts, refused) ==
  LET bad(k) == LET e == CHOOSE x \in CaretEntries : x.text = texts[k]
                IN  e.form \in refused \/ (e.form = "alone" /\ k < Len(texts))
  IN  IF \E k \in 1..Len(texts) : bad(k)
      THEN CHOOSE k \in 1..Len(texts) : bad(k) /\ \A j \in 1..(k - 1) : ~bad(j)
      ELSE 0

\* The call fails with "Invalid keyword" and the index of the first refused
\* entry, and returns the listing of the reference where none is refused.
LiteralCaretRule(refused) ==
  \E texts \in {EntriesOf(source)} : \E k \in {FirstRefusedCaret(texts, refused)} :
    /\ k > 0 => pc # "done"
    /\ (k > 0 /\ pc = "error") =>
         /\ err.kind = "CharClassSyntaxError"
         /\ err.message = "Invalid keyword"
         /\ err.source = source
         /\ err.index = EntryIndex(texts, k)
         /\ regex = NoRegex
    /\ k = 0 => pc # "error"
    /\ (k = 0 /\ pc = "done") =>
         regex.source = ClassListing(ApplyEntries(CaretEntries, texts, {}), UNICODE_CHAR_CLASSES[options.type])

\* C19 as stated: a literal ^ is taken as the last entry, as the end of a
\* range and after an inverting ^; as the start of a range, or alone before
\* the last entry, it makes the call fail with "Invalid keyword" and the
\* index of that entry.
C19_AsStated == LiteralCaretRule({"range start", "inverted range start"})

\* C19: a literal ^ is taken as the last entry, as the end of a range and
\* after an inverting ^, there also as the start of a range; as the start of
\* a range without inverting ^, or alone before the last entry, it makes the
\* call fail with "Invalid keyword" and the index of that entry.
C19_LiteralCaret == LiteralCaretRule({"range start"})

\* A-^,^^-a,^-a: the first two entries are taken, the third, at index 9,
\* is refused
C19_Witness ==
  /\ pc = "error"
  /\ source = <<"A", "-", "^", ",", "^", "^", "-", "a", ",", "^", "-", "a">>
  /\ err.message = "Invalid keyword"
  /\ err.index = 9

-----------------------------------------------------------------------------
(* Option merging: new VimRegExp(W, O) for a wrapper W.                    *)

\* The options a caller gives: some fields, or none
CallerOptions ==
  { [flags |-> <<"g">>],
    [magic |-> FALSE],
    [ignorecase |-> TRUE, flags |-> <<"d">>],
    [iskeyword |-> <<"a", "-", "c">>],
    [stringMatch |-> TRUE, smartcase |-> TRUE],
    [flags |-> <<>>] }

\* new VimRegExp(W, given) for the wrapper W that was just constructed:
\* srcObj is W, vimSource its #vimSource, and the constructor starts over.
ConstructFromWrapper ==
  /\ pc = "done"
  /\ "from" \notin DOMAIN options
  /\ \E given \in CallerOptions :
       options' = [from |-> heap[regex.options], given |-> given]
  /\ pc' = "new"
  /\ ps' = InitialLocals(<<>>, DefaultOptions, FALSE)
  /\ regex' = NoRegex
  /\ atoms' = <<>>
  /\ UNCHANGED <<source, err, heap, held, vimOptions>>

NextMerge == Next \/ ConstructFromWrapper

InitMerge == Start({<<"a">>, <<"a", "*">>, <<BS, "k">>}, CallerOptions)

SpecMerge == InitMerge /\ [][NextMerge]_vars

\* What the claim requires of field k of the new wrapper's options
MergedField(k) ==
  IF "from" \in DOMAIN options
  THEN IF k \in DOMAIN options.given THEN options.given[k] ELSE options.from[k]
  ELSE IF k \in DOMAIN options THEN options[k] ELSE DefaultOptions[k]

\* C20 as stated: a wrapper constructed from a wrapper W with options O has
\* every option field, flags included, from O where O gives it, else from
\* W, else the default, and compiles with those flags; a wrapper constructed
\* from a string has O's value, else the default.
C20_AsStated ==
  pc = "done" =>
    /\ \A k \in DOMAIN DefaultOptions : mergedOptions(options)[k] = MergedField(k)
    /\ regex.flags = HostFlags(UnionFlags(MergedField("flags"), <<"s", "v">> \o (IF MergedField("ignorecase") THEN <<"i">> ELSE <<>>)))

-----------------------------------------------------------------------------
(* Option strings: the types isident and iskeyword.                        *)

InitIdentKeyword ==
  StartCharClass(OptionStrings({e.text : e \in OptionEntries}, MaxEntries),
                 {[type |-> t, unicode |-> TRUE] : t \in {"isident", "iskeyword"}})

SpecIdentKeyword == InitIdentKeyword /\ [][NextCharClass]_vars

\* The class of type isident or iskeyword lists `set` before the tail
IdentKeywordClass(set) ==
  /\ pc # "error"
  /\ pc = "done" => regex.source = ClassListing(set, UNICODE_CHAR_CLASSES[options.type])

\* C29 as stated: for isident and for iskeyword the overlay removes every
\* code, so the class lists no code of the option string and consists of
\* the Unicode tail of the type only.
C29_AsStated == IdentKeywordClass({})

\* C29: for isident and for iskeyword there is no overlay: the class lists
\* the codes the entries of the option string leave, applied left to right,
\* followed by the Unicode tail of the type (empty for isident).
C29_IdentKeywordOverlay == IdentKeywordClass(ApplyEntries(OptionEntries, EntriesOf(source), {}))

\* a-c,^b for isident: the class lists a and c and has no tail
C29_Witness ==
  /\ pc = "done"
  /\ source = <<"a", "-", "c", ",", "^", "b">>
  /\ options.type = "isident"
  /\ regex.source = <<"[\\x61\\x63]">>

-----------------------------------------------------------------------------
(* Option strings: unicode: false with the types isfname and isprint.      *)

\* The overlay of the type without its removal of 160..255
OverlayKeeping(type, set) == IF type = "isprint" THEN set \cup (32..126) ELSE set

\* With unicode: false and type isfname or isprint, the class is the listing
\* of the entries applied left to right and then the overlay, with its
\* removal of 160..255 or (`keeping`) without, and nothing else
SuppressedClass(keeping) ==
  (options.type \in {"isfname", "isprint"} /\ ~options.unicode) =>
    /\ pc # "error"
    /\ pc = "done" =>
         \E user \in {ApplyEntries(OptionEntries, EntriesOf(source), {})} :
           regex.source = ClassListing(IF keeping THEN OverlayKeeping(options.type, user) ELSE Overlay(options.type, user), "")

\* C30 as stated: with Unicode suppressed and type isfname or isprint the
\* Unicode tail is omitted and the overlay's removal of 160..255 is skipped,
\* so the codes 160..255 the option string added remain in the class.
C30_AsStated == SuppressedClass(TRUE)

\* C30: with Unicode suppressed and type isfname or isprint the Unicode tail
\* is omitted and the overlay is applied in full, so the class lists no code
\* of 160..255, also where the option string added such codes.
C30_UnicodeSuppressed == SuppressedClass(FALSE)

\* a-c,200-202 for isfname without Unicode: 200..202 are gone
C30_Witness ==
  /\ pc = "done"
  /\ source = <<"a", "-", "c", ",", "2", "0", "0", "-", "2", "0", "2">>
  /\ options = [type |-> "isfname", unicode |-> FALSE]
  /\ regex.source = <<"[\\x61-\\x63]">>

-----------------------------------------------------------------------------
(* The objects behind a wrapper and a pattern template: the accessors and  *)
(* what the caller can do to the objects it has.                           *)

MaxObjects == 4

\* The value of field k of obj set to v (a field obj does not have is added)
Assign(obj, k, v) == [x \in DOMAIN obj \cup {k} |-> IF x = k THEN v ELSE obj[x]]

\* An accessor that hands out the object itself
optionsGetterShared(h, ref) == [heap |-> h, address |-> ref]

\* get options(): { ...this.#options }, and { ...vimOptions } of a template:
\* a new object with the fields of the one at `ref`
optionsGetter(h, ref) == [heap |-> Append(h, h[ref]), address |-> Len(h) + 1]

\* regex.options read by the caller
GetOptions ==
  /\ pc = "done"
  /\ Len(heap) < MaxObjects
  /\ \E r \in {optionsGetter(heap, regex.options)} :
       /\ heap' = r.heap
       /\ held' = held \cup {r.address}
  /\ UNCHANGED <<source, options, pc, ps, err, regex, atoms, vimOptions>>

\* buildVimPatternTemplate(options) once its new VimRegExp("\\f\\i\\k\\p",
\* options) is constructed: vimOptions is what the accessor of that wrapper
\* returns.
BuildVimPatternTemplate ==
  /\ pc = "done"
  /\ source = <<BS, "f", BS, "i", BS, "k", BS, "p">>
  /\ vimOptions = Undefined
  /\ Len(heap) < MaxObjects
  /\ \E r \in {optionsGetter(heap, regex.options)} :
       /\ heap' = r.heap
       /\ vimOptions' = r.address
  /\ UNCHANGED <<source, options, pc, ps, err, regex, atoms, held>>

\* vimpattern.options read by the caller
GetTemplateOptions ==
  /\ pc = "done"
  /\ vimOptions # Undefined
  /\ Len(heap) < MaxObjects
  /\ \E r \in {optionsGetter(heap, vimOptions)} :
       /\ heap' = r.heap
       /\ held' = held \cup {r.address}
  /\ UNCHANGED <<source, options, pc, ps, err, regex, atoms, vimOptions>>

\* What the caller assigns to a field of an options object
Assignments ==
  { [field |-> "flags", value |-> <<"i">>],
    [field |-> "magic", value |-> FALSE],
    [field |-> "stringMatch", value |-> TRUE] }

\* The caller assigns to a field of an object an accessor returned
MutateReturned ==
  /\ pc = "done"
  /\ \E a \in held : \E m \in Assignments :
       heap' = [heap EXCEPT ![a] = Assign(heap[a], m.field, m.value)]
  /\ UNCHANGED <<source, options, pc, ps, err, regex, atoms, held, vimOptions>>

\* The caller assigns to a field of the options object it passed in
MutatePassed ==
  /\ pc = "done"
  /\ \E m \in Assignments : options' = Assign(options, m.field, m.value)
  /\ UNCHANGED <<source, pc, ps, err, regex, atoms, heap, held, vimOptions>>

NextObjects ==
  \/ Next
  \/ GetOptions
  \/ BuildVimPatternTemplate
  \/ GetTemplateOptions
  \/ MutateReturned
  \/ MutatePassed

InitObjects ==
  Start({<<"a", "*">>, <<BS, "f", BS, "i", BS, "k", BS, "p">>},
        {[flags |-> <<"d", "g">>], [magic |-> TRUE, ignorecase |-> TRUE], << >>})

SpecObjects == InitObjects /\ [][NextObjects]_vars

\* What the accessors of the wrapper return
WrapperView ==
  [options |-> heap[regex.options], vimSource |-> regex.vimSource, source |-> regex.source, flags |-> regex.flags]

\* C21: once a wrapper is constructed, no step of the caller (reading an
\* accessor, assigning to a field of the options object it passed in or of
\* an object an accessor of the wrapper or of the template returned) changes
\* what options, vimSource, the compiled source and the flags of the wrapper
\* return, nor what the options of the template return.
C21_Immutable ==
  [][(pc = "done" /\ pc' = "done") =>
       /\ WrapperView' = WrapperView
       /\ vimOptions # Undefined => heap'[vimOptions'] = heap[vimOptions]]_vars

\* The caller changed the object it passed in and objects that both
\* accessors returned, and the wrapper and the template return what they did
C21_Witness ==
  /\ pc = "done"
  /\ vimOptions # Undefined
  /\ heap[regex.options].flags = <<"d", "g">>
  /\ heap[vimOptions].flags = <<"d", "g">>
  /\ options = [flags |-> <<"i">>]
  /\ \E a \in held : heap[a].flags = <<"i">>
  /\ Cardinality(held) = 2

-----------------------------------------------------------------------------
(* The named flag accessors.  The class defines none of its own: they are  *)
(* the host's, inherited, and read the flags super(source, flags) got.     *)

hasIndices(r) == Includes(r.flags, "d")

global(r) == Includes(r.flags, "g")

ignoreCase(r) == Includes(r.flags, "i")

sticky(r) == Includes(r.flags, "y")

\* C22 as stated: hasIndices, global, ignoreCase and sticky are true exactly
\* when the caller's flags contain d, g, i, y; ignoreCase is false when i was
\* added only internally, because of \c or the ignorecase option.
C22_AsStated ==
  pc = "done" =>
    /\ hasIndices(regex) <=> Includes(CallerFlags, "d")
    /\ global(regex) <=> Includes(CallerFlags, "g")
    /\ ignoreCase(regex) <=> Includes(CallerFlags, "i")
    /\ sticky(regex) <=> Includes(CallerFlags, "y")

-----------------------------------------------------------------------------
(* Malformed option strings and the errors of the constructor.             *)

\* Tokens: those that consult an option (and which), those that do not, and
\* those the transpiler refuses (and with what).
OptionUseTokens ==
  { [text |-> <<BS, "i">>, consults |-> "isident", refused |-> "none"],
    [text |-> <<BS, "K">>, consults |-> "iskeyword", refused |-> "none"],
    [text |-> <<BS, "_", "f">>, consults |-> "isfname", refused |-> "none"],
    [text |-> <<"[", "[", ":", "p", "r", "i", "n", "t", ":", "]", "]">>, consults |-> "isprint", refused |-> "none"],
    [text |-> <<BS, "<">>, consults |-> "iskeyword", refused |-> "none"],
    [text |-> <<"a">>, consults |-> "none", refused |-> "none"],
    [text |-> <<"b", "*">>, consults |-> "none", refused |-> "none"],
    [text |-> <<BS, ")">>, consults |-> "none", refused |-> "VimRegExpSyntaxError"],
    [text |-> <<BS, "z", "s">>, consults |-> "none", refused |-> "UnsupportedSyntaxError"] }

\* Malformed option strings, each with the index of its bad entry and what
\* patternToCharClass says of it
BadOptionStrings ==
  { [text |-> <<"X", "Y", "Z">>, index |-> 0, message |-> "Invalid keyword"],
    [text |-> <<"a", ",", "0">>, index |-> 2, message |-> "Invalid code range"] }

OptionTypes == {"isfname", "isident", "iskeyword", "isprint"}

InitOptionUse ==
  Start(Concats({t.text : t \in OptionUseTokens}, MaxTokens),
        {<< >>} \cup {[k \in {type} |-> bad.text] : type \in OptionTypes, bad \in BadOptionStrings})

SpecOptionUse == InitOptionUse /\ [][Next]_vars

\* The token of `table` that src has at i (1-based)
TokenAt(table, src, i) ==
  CHOOSE t \in table : i + Len(t.text) - 1 <= Len(src) /\ SubSeq(src, i, i + Len(t.text) - 1) = t.text

\* The first token from i on that fails, with its index in the pattern
\* (counted from 0); a token of type "none" if no token fails.
RECURSIVE FirstFailure(_, _, _)
FirstFailure(table, src, i) ==
  IF i > Len(src) THEN [token |-> [consults |-> "none", refused |-> "none"], index |-> Undefined]
  ELSE LET t == TokenAt(table, src, i)
       IN  IF t.refused # "none" \/ t.consults \in DOMAIN options THEN [token |-> t, index |-> i - 1]
           ELSE FirstFailure(table, src, i + Len(t.text))

\* The error of patternToCharClass for the malformed string `bad`, as the
\* constructor throws it: unchanged, or as the cause of an error of its own.
OptionErrorUnchanged(bad) ==
  /\ err.kind = "CharClassSyntaxError"
  /\ err.message = bad.message
  /\ err.source = bad.text
  /\ err.index = bad.index

OptionErrorWrapped(bad) ==
  /\ err.kind = "VimRegExpSyntaxError"
  /\ err.message = bad.message
  /\ err.source = source
  /\ err.index = Undefined
  /\ err.cause = "CharClassSyntaxError"
  /\ err.wrapped.kind = "CharClassSyntaxError"
  /\ err.wrapped.source = bad.text
  /\ err.wrapped.index = bad.index

\* What the constructor throws: for an atom the transpiler refuses, the
\* transpiler's error with the Vim source and the index of the atom; for a
\* malformed option string, the error of patternToCharClass, `unchanged` or
\* wrapped.
ErrorRule(unchanged) ==
  \E f \in {FirstFailure(OptionUseTokens, source, 1)} :
    /\ (f.index = Undefined) => pc # "error"
    /\ (f.index # Undefined) => pc # "done"
    /\ (f.index # Undefined /\ pc = "error") =>
         IF f.token.refused # "none"
         THEN err.kind = f.token.refused /\ err.source = source /\ err.index = f.index /\ err.cause = "none"
         ELSE \E bad \in {b \in BadOptionStrings : b.text = options[f.token.consults]} :
                IF unchanged THEN OptionErrorUnchanged(bad) ELSE OptionErrorWrapped(bad)

-----------------------------------------------------------------------------
(* Option strings are validated when an atom consults them.                *)

\* The tokens that consult an option, and tokens that consult none: at
\* magic a bare < or > is a literal character.
OnDemandTokens ==
  {t \in OptionUseTokens : t.refused = "none"}
    \cup { [text |-> <<BS, ">">>, consults |-> "iskeyword", refused |-> "none"],
           [text |-> <<"<">>, consults |-> "none", refused |-> "none"],
           [text |-> <<">">>, consults |-> "none", refused |-> "none"] }

InitOnDemand ==
  Start(Concats({t.text : t \in OnDemandTokens}, MaxTokens),
        {<< >>} \cup {[k \in {type} |-> bad.text] : type \in OptionTypes, bad \in BadOptionStrings})

SpecOnDemand == InitOnDemand /\ [][Next]_vars

\* C24 as stated: a malformed option string makes construction fail if and
\* only if the pattern has an atom that consults that option; otherwise
\* construction succeeds and the wrapper's options hold the malformed string.
C24_AsStated ==
  \E f \in {FirstFailure(OnDemandTokens, source, 1)} :
    /\ (f.index # Undefined) => pc # "done"
    /\ (f.index # Undefined /\ pc = "error") => err.cause = "CharClassSyntaxError"
    /\ (f.index = Undefined) => pc # "error"
    /\ (f.index = Undefined /\ pc = "done") =>
         \A type \in DOMAIN options : heap[regex.options][type] = options[type]

-----------------------------------------------------------------------------
(* The tagged template of pattern.ts.                                      *)

\* Array.prototype.toString of an array of strings: its elements joined by
\* commas
RECURSIVE ArrayToString(_)
ArrayToString(arr) ==
  IF arr = <<>> THEN <<>>
  ELSE IF Len(arr) = 1 THEN arr[1]
  ELSE arr[1] \o <<",">> \o ArrayToString(Tail(arr))

\* String.raw(template, ...substitutions): the raw pieces, with substitution
\* i after piece i as long as there is one
RECURSIVE StringRaw(_, _)
StringRaw(raw, substitutions) ==
  IF Len(raw) = 1 THEN raw[1]
  ELSE raw[1] \o (IF substitutions = <<>> THEN <<>> ELSE Head(substitutions))
              \o StringRaw(Tail(raw), IF substitutions = <<>> THEN <<>> ELSE Tail(substitutions))

TemplatePieces == {<<>>, <<"a">>, <<"b", "*">>}

\* The interpolations ${...} of a template literal and the strings their
\* expressions evaluate to
TemplateHoles == [h \in {"${x}", "${y}"} |-> IF h = "${x}" THEN <<"x">> ELSE <<"y">>]

Templates ==
  TemplatePieces
    \cup {r1 \o <<h>> \o r2 : r1, r2 \in TemplatePieces, h \in DOMAIN TemplateHoles}
    \cup {r1 \o <<h1>> \o r2 \o <<h2>> \o r3 : r1, r2, r3 \in TemplatePieces, h1, h2 \in DOMAIN TemplateHoles}

\* template.raw: the pieces of the literal between its interpolations
RECURSIVE TemplateRaw(_)
TemplateRaw(lit) ==
  IF \E i \in 1..Len(lit) : lit[i] \in DOMAIN TemplateHoles
  THEN LET i == CHOOSE k \in 1..Len(lit) : lit[k] \in DOMAIN TemplateHoles /\ \A j \in 1..(k - 1) : lit[j] \notin DOMAIN TemplateHoles
       IN  <<SubSeq(lit, 1, i - 1)>> \o TemplateRaw(SubSeq(lit, i + 1, Len(lit)))
  ELSE <<lit>>

\* exprs: the values of the interpolations, in order
RECURSIVE TemplateExprs(_)
TemplateExprs(lit) ==
  IF lit = <<>> THEN <<>>
  ELSE (IF Head(lit) \in DOMAIN TemplateHoles THEN <<TemplateHoles[Head(lit)]>> ELSE <<>>) \o TemplateExprs(Tail(lit))

\* vimpattern`...` is called with a template literal
CallTemplate ==
  /\ pc = "done"
  /\ vimOptions # Undefined
  /\ Len(heap) < MaxObjects
  /\ source' \in Templates
  /\ pc' = "template"
  /\ UNCHANGED <<options, ps, err, regex, atoms, heap, held, vimOptions>>

\* The body of vimpattern: raw = String.raw(template, exprs), then
\* new VimRegExp(raw, vimOptions)
ApplyTemplate ==
  /\ pc = "template"
  /\ source' = StringRaw(TemplateRaw(source), <<ArrayToString(TemplateExprs(source))>>)
  /\ options' = heap[vimOptions]
  /\ pc' = "new"
  /\ ps' = InitialLocals(<<>>, DefaultOptions, FALSE)
  /\ regex' = NoRegex
  /\ atoms' = <<>>
  /\ UNCHANGED <<err, heap, held, vimOptions>>

NextTemplate == Next \/ BuildVimPatternTemplate \/ CallTemplate \/ ApplyTemplate

InitTemplate == Start({<<BS, "f", BS, "i", BS, "k", BS, "p">>}, {<< >>, [flags |-> <<"g">>]})

SpecTemplate == InitTemplate /\ [][NextTemplate]_vars

\* The raw pieces with expression i between piece i and piece i + 1
RECURSIVE Interleaved(_, _)
Interleaved(raw, exprs) ==
  IF Len(raw) = 1 THEN raw[1] ELSE raw[1] \o exprs[1] \o Interleaved(Tail(raw), Tail(exprs))

\* C25 as stated: for a template with any number of expressions, the Vim
\* source the wrapper is constructed from is the raw text with expression i
\* between the raw pieces i and i + 1.
C25_AsStated == [][pc = "template" => source' = Interleaved(TemplateRaw(source), TemplateExprs(source))]_vars

-----------------------------------------------------------------------------
(* Lookaround application.  Patterns of groups, one-character atoms and    *)
(* the lookaround quantifiers \@= and \@<!, at the default magic level.    *)

LookaroundTokens ==
  { <<"a">>, <<BS, "(">>, <<BS, ")">>, <<BS, "(", "a", BS, ")">>,
    <<"a", BS, "@", "=">>, <<BS, "@", "=">>, <<BS, "@", "<", "!">> }

InitLookaround == Start(Concats(LookaroundTokens, MaxTokens), {<< >>})

SpecLookaround == InitLookaround /\ [][Next]_vars

GroupOpeners == { <<"(">>, <<"(?:">>, <<"(?=">>, <<"(?!">>, <<"(?<=">>, <<"(?<!">> }

\* The position in buf of the opening token whose group is closed by the
\* closing token met first when reading buf backwards from position i.
RECURSIVE OpenerOf(_, _, _)
OpenerOf(buf, i, depth) ==
  IF i = 0 THEN Undefined
  ELSE IF buf[i] = <<")">> THEN OpenerOf(buf, i - 1, depth + 1)
  ELSE IF buf[i] \in GroupOpeners
       THEN (IF depth = 1 THEN i ELSE OpenerOf(buf, i - 1, depth - 1))
  ELSE OpenerOf(buf, i - 1, depth)

\* Atom n of the parse is an applied lookaround quantifier.
IsLookaround(n) == atoms[n].c = "@" /\ atoms[n].role = "meta"

\* Atom n of the parse is a \) that closed a group.
IsGroupClose(n) == atoms[n].c = ")" /\ atoms[n].role = "meta"

\* The output buffer the lookaround at atom n has to leave behind: the opener
\* of the group closed just before it rewritten to the lookaround head, or
\* the single preceding token wrapped; everything else as it was.
LookaroundApplied(n) ==
  LET e == atoms[n]
      head == "(?" \o MatchLookaround(source, e.atomIndex + 2).p
      last == Len(e.before)
  IN  IF n > 1 /\ IsGroupClose(n - 1)
      THEN [e.before EXCEPT ![OpenerOf(e.before, last, 0)] = <<head>>]
      ELSE SubSeq(e.before, 1, last - 1) \o << <<head>>, e.before[last], <<")">> >>

\* C26 as stated: every lookaround quantifier rewrites the opening token of
\* the group closed just before it, or else wraps the single preceding token,
\* changes no other token of the output buffer and is never dropped.
C26_AsStated == \A n \in 1..Len(atoms) : IsLookaround(n) => atoms[n].after = LookaroundApplied(n)

-----------------------------------------------------------------------------
(* Balanced groups.  Patterns of group tokens, branches, an end-of-line    *)
(* anchor, a one-character atom and a lookaround, at the default level.    *)

BalancedTokens ==
  { <<"a">>, <<"$">>, <<BS, "(">>, <<BS, ")">>, <<BS, "|">>, <<BS, "@", "=">> }

InitBalanced == Start(Concats(BalancedTokens, MaxTokens), {<< >>})

SpecBalanced == InitBalanced /\ [][Next]_vars

\* Reading the emitted lexemes from i with `depth` groups open: every closing
\* token closes an opening token before it and no group is left open.
RECURSIVE GroupsBalanced(_, _, _)
GroupsBalanced(lexemes, i, depth) ==
  IF i > Len(lexemes) THEN depth = 0
  ELSE IF lexemes[i] \in HostOpens THEN GroupsBalanced(lexemes, i + 1, depth + 1)
  ELSE IF lexemes[i] = ")" THEN depth > 0 /\ GroupsBalanced(lexemes, i + 1, depth - 1)
  ELSE GroupsBalanced(lexemes, i + 1, depth)

\* The index in the Vim source of the first \) that has no \( open before
\* it, Undefined if there is none (patterns of BalancedTokens, from index i).
RECURSIVE FirstUnmatchedClose(_, _, _)
FirstUnmatchedClose(src, i, depth) ==
  IF i >= Len(src) THEN Undefined
  ELSE IF At(src, i) # BS THEN FirstUnmatchedClose(src, i + 1, depth)
  ELSE IF At(src, i + 1) = "(" THEN FirstUnmatchedClose(src, i + 2, depth + 1)
  ELSE IF At(src, i + 1) = ")"
       THEN (IF depth = 0 THEN i ELSE FirstUnmatchedClose(src, i + 2, depth - 1))
  ELSE FirstUnmatchedClose(src, i + 2, depth)

\* C27 as stated: whenever construction returns a wrapper, the emitted source has
\* balanced groups and the stack of open groups is empty at the end of the
\* parse; a \) with no open group makes construction fail, with the error
\* "Unmatched '\)'" at that token unless an earlier token was refused.
C27_AsStated ==
  /\ pc = "done" => GroupsBalanced(regex.source, 1, 0) /\ ps.groupIndices = <<>>
  /\ \A k \in {FirstUnmatchedClose(source, 0, 0)} :
       (k # Undefined /\ pc \in {"done", "error"}) =>
         /\ pc = "error"
         /\ err.kind = "VimRegExpSyntaxError"
         /\ \/ err.index = k /\ err.message = "Unmatched '\\)'"
            \/ err.index # Undefined /\ err.index < k

-----------------------------------------------------------------------------
(* Concat \&.  Patterns of atoms, a star, groups, branches and \&,        *)
(* at the default magic level; the longer tokens reach a \& in the second  *)
(* branch of a group and a second \& of one branch within MaxTokens.       *)

ConcatTokens ==
  { <<"a">>, <<BS, "&">>, <<BS, "|">>, <<BS, "(">>, <<BS, ")">>,
    <<BS, "(", "b">>, <<"a", BS, "&">>, <<BS, "(", "a", "*", BS, ")">>, <<BS, "(", "b", BS, "|">> }

InitConcat == Start(Concats(ConcatTokens, MaxTokens), {<< >>})

SpecConcat == InitConcat /\ [][Next]_vars

IsMeta(j, c) == atoms[j].c = c /\ atoms[j].role = "meta"

\* The buffer position at which the concat segment that is current after the
\* first j atoms begins: just behind the latest \( , \| or \& of the
\* innermost group still open (`depth` groups are closed further right), the
\* start of the buffer if there is none.
RECURSIVE SegmentStart(_, _)
SegmentStart(j, depth) ==
  IF j = 0 THEN 0
  ELSE IF IsMeta(j, ")") THEN SegmentStart(j - 1, depth + 1)
  ELSE IF IsMeta(j, "(")
       THEN (IF depth = 0 THEN Len(atoms[j].after) ELSE SegmentStart(j - 1, depth - 1))
  ELSE IF depth = 0 /\ (IsMeta(j, "|") \/ IsMeta(j, "&")) THEN Len(atoms[j].after)
  ELSE SegmentStart(j - 1, depth)

\* The buffer a \& at atom n has to leave behind: the tokens of the current
\* segment inside a positive lookahead, every other token as it was.
ConcatApplied(n) ==
  LET before == atoms[n].before
      start == SegmentStart(n - 1, 0)
  IN  SubSeq(before, 1, start) \o << <<"(?=">> >> \o SubSeq(before, start + 1, Len(before)) \o << <<")">> >>

\* C28: every \& wraps exactly the tokens emitted since the start of the
\* current concat segment in a positive lookahead and leaves every other token
\* unchanged; while parsing, the recorded start of every open group points at
\* that group's opening token, the recorded segment start of every enclosing
\* level lies just behind it or further right, and the innermost recorded
\* segment start is the start of the current segment.
C28_ConcatSegments ==
  /\ \A n \in 1..Len(atoms) : IsMeta(n, "&") => atoms[n].after = ConcatApplied(n)
  /\ pc = "parse" =>
       /\ Len(ps.concatIndices) = Len(ps.groupIndices) + 1
       /\ \A g \in 1..Len(ps.groupIndices) :
            /\ ps.resPattern[ps.groupIndices[g] + 1] = <<"(">>
            /\ ps.concatIndices[g] <= ps.groupIndices[g]
            /\ ps.concatIndices[g + 1] > ps.groupIndices[g]
       /\ Last(ps.concatIndices) = SegmentStart(Len(atoms), 0)

\* \(b\|a\&\) has been transpiled: the \& stands in the second branch of a
\* group and wraps only the a of that branch.
C28_Witness ==
  /\ pc = "done"
  /\ source = <<BS, "(", "b", BS, "|", "a", BS, "&", BS, ")">>
  /\ regex.source = <<"(", "b", "|", "(?=", "a", ")", ")">>

====
